---------------------------- MODULE Spec2Model ----------------------------
(***************************************************************************)
(* The arena shooter (ArcheroGame) as a state machine.                     *)
(*                                                                         *)
(* State: the component's React state (useState cells and nowRef), plus    *)
(* the values the effect closures captured at their last subscription.    *)
(* One action per handler: a key or pointer event, Start/Pause, Reset, a   *)
(* perk choice, and one animation frame of gameLoop.  A frame enqueues its *)
(* state updates and React commits them in one render; the action applies  *)
(* each cell's update queue in the order the frame enqueued it.            *)
(*                                                                         *)
(* Numbers: JavaScript doubles are modelled in fixed point, 25 units per   *)
(* simulation unit (3.12 is 78, 1/25 of a unit is the resolution).         *)
(* Products of a ratio round toward zero.  Math.random() is a choice from  *)
(* a small set of sample points.                                           *)
(***************************************************************************)
EXTENDS Integers, Sequences, FiniteSets, TLC

(* ------------------------------ numbers ------------------------------ *)

\* a source number n in fixed point
Fx(n) == n * 25

Abs(a) == IF a < 0 THEN -a ELSE a
Min(a, b) == IF a < b THEN a ELSE b
Max(a, b) == IF a > b THEN a ELSE b

\* a / b rounded toward zero, b > 0
TDiv(a, b) == IF a >= 0 THEN a \div b ELSE -((-a) \div b)

RECURSIVE SqrtIter(_, _)
SqrtIter(n, x) ==
  LET y == (x + n \div x) \div 2
  IN  IF y >= x THEN x ELSE SqrtIter(n, y)

\* floor of Math.sqrt(n)
Sqrt(n) == IF n < 2 THEN n ELSE SqrtIter(n, n)

\* Math.sqrt(dx * dx + dy * dy) < d, without the root
DistLess(dx, dy, d) == dx * dx + dy * dy < d * d

\* Math.sqrt(dx * dx + dy * dy) > d, without the root
DistMore(dx, dy, d) == dx * dx + dy * dy > d * d

(* --------------------------- program constants ----------------------- *)

canvasWidth == Fx(1280)
canvasHeight == Fx(720)
TOP_Y == (canvasHeight * 6) \div 100
BOTTOM_Y == (canvasHeight * 98) \div 100
TOP_HALF_W == (canvasWidth * 16) \div 100
BOT_HALF_W == (canvasWidth * 28) \div 100
cxArena == canvasWidth \div 2

MAX_ENEMIES == 35
BASE_PLAYER_SPEED == Fx(312) \div 100
BASE_PROJECTILE_SPEED == Fx(6)
\* enemySpeed is held in tenths of a fixed-point unit: 1.3 is 325
BASE_ENEMY_SPEED == Fx(13)
fireRate == 500
enemySpawnRate == 1200
projectileLifetime == 2500
spawnInvul == 300
FIRST_MILESTONE == 10
MILESTONE_STEP == 10
ENEMY_MIN_DIST == Fx(160)
OBSTACLE_MIN_DIST == Fx(120)
MAX_ATTEMPTS == 20
dropChance == 25

PLAYER_RADIUS == Fx(14)
ENEMY_RADIUS == Fx(12)
PROJECTILE_RADIUS == Fx(4)
DROP_RADIUS == Fx(12)

\* unit vectors (aimX, aimY) carry three decimals
AimOne == 1000

PerkIds == {"arrow_speed", "player_speed", "arrow_count", "pierce", "ricochet"}

(* ------------------------------ geometry ----------------------------- *)

halfWAt(y) == TOP_HALF_W + TDiv((BOT_HALF_W - TOP_HALF_W) * y, canvasHeight)

\* the arena drawn upside down: the scale of the mirrored row
project_TopWide(x, y) ==
  [sx |-> x, sy |-> y,
   scale |-> (halfWAt(canvasHeight - y) * 10000) \div BOT_HALF_W]
\* scale carries four decimals
project(x, y) ==
  LET t10k == Max(0, Min(10000, TDiv(y * 10000, canvasHeight)))
      halfW == halfWAt(y)
  IN  [sx |-> cxArena + TDiv((x - cxArena) * halfW, BOT_HALF_W),
       sy |-> TOP_Y + TDiv((BOTTOM_Y - TOP_Y) * t10k, 10000),
       scale |-> TDiv(halfW * 10000, BOT_HALF_W)]

circleRectCollides(cx, cy, cr, ob) ==
  LET left == ob.x - ob.width \div 2
      right == ob.x + ob.width \div 2
      top == ob.y - ob.height \div 2
      bottom == ob.y + ob.height \div 2
      closestX == Max(left, Min(cx, right))
      closestY == Max(top, Min(cy, bottom))
  IN  DistLess(cx - closestX, cy - closestY, cr)

circleRectCollisionAxis(cx, cy, cr, ob) ==
  LET left == ob.x - ob.width \div 2
      right == ob.x + ob.width \div 2
      top == ob.y - ob.height \div 2
      bottom == ob.y + ob.height \div 2
      closestX == Max(left, Min(cx, right))
      closestY == Max(top, Min(cy, bottom))
      dx == Abs(cx - closestX)
      dy == Abs(cy - closestY)
  IN  IF dx > dy THEN "x" ELSE "y"

\* obs: the obstacles cell as the calling closure captured it
checkObstacleCollision(obs, x, y, radius) ==
  \E k \in 1..Len(obs) : circleRectCollides(x, y, radius, obs[k])

(* ------------------------------- state ------------------------------- *)

VARIABLES
  running, gameOver, score, kills, slpCount,   \* run state
  obstacles, drops, enemies, projectiles,      \* entity collections
  player, stats,
  perkOpen, perkChoices, nextMilestone,
  lastEnemySpawn, enemySpeed, mousePos,
  now,          \* nowRef.current: the timestamp of the last frame
  loop,         \* stats and perkOpen as the pending frame's closure holds them
  keySpeed,     \* stats.playerSpeed as the key handlers' closure holds it
  picks,        \* the local picks of the perk draw loop
  projected,    \* a call of project: its arguments and its results
  lastVolley,   \* the timestamp of the last call of fireProjectile
  frames,       \* the animation frames the loop effect has requested
  held,         \* the movement keys that are down, where a run watches them
  snakeGame,    \* the cells of the SnakeGame component
  nextId        \* object identity: the next fresh entity id

vars == <<running, gameOver, score, kills, slpCount, obstacles, drops,
          enemies, projectiles, player, stats, perkOpen, perkChoices,
          nextMilestone, lastEnemySpawn, enemySpeed, mousePos, now, loop,
          keySpeed, picks, projected, lastVolley, frames, held, snakeGame,
          nextId>>

BaseStats ==
  [playerSpeed |-> BASE_PLAYER_SPEED, projectileSpeed |-> BASE_PROJECTILE_SPEED,
   arrowCount |-> 1, pierce |-> FALSE, ricochet |-> FALSE]

StartPlayer ==
  [x |-> canvasWidth \div 2, y |-> canvasHeight \div 2, vx |-> 0, vy |-> 0,
   radius |-> PLAYER_RADIUS, aimX |-> AimOne, aimY |-> 0, lastFireTime |-> 0]

\* the keyboard is not watched: held.keys stays empty
Unwatched == [on |-> FALSE, keys |-> {}]
\* the key goes down
KeyPressed(h, key) == IF h.on THEN [h EXCEPT !.keys = @ \cup {key}] ELSE h
\* the key goes up
KeyReleased(h, key) == IF h.on THEN [h EXCEPT !.keys = @ \ {key}] ELSE h

(* ----------------------------- SnakeGame ----------------------------- *)
\* the snake of a new game, head first
SnakeStart ==
  <<[x |-> 10, y |-> 10], [x |-> 9, y |-> 10], [x |-> 8, y |-> 10]>>

\* the cells of the component right after construction; seen is the snake
\* as the closure of the move interval holds it, applied and before are
\* the directions the last two moves applied, moves counts the moves
NewSnakeGame ==
  [running |-> FALSE, gameOver |-> FALSE, direction |-> "right",
   snake |-> SnakeStart, food |-> [x |-> 15, y |-> 10], score |-> 0,
   seen |-> SnakeStart, applied |-> "none", before |-> "none", moves |-> 0]

\* project has not been called
NoProjection ==
  [x |-> 0, y1 |-> 0, y2 |-> 0, scale1 |-> 0, scale2 |-> 0, done |-> FALSE]

\* the cells right after construction
Constructed ==
  [running |-> FALSE, gameOver |-> FALSE, score |-> 0, kills |-> 0,
   slpCount |-> 0, obstacles |-> <<>>, drops |-> <<>>, enemies |-> <<>>,
   projectiles |-> <<>>, player |-> StartPlayer, stats |-> BaseStats,
   perkOpen |-> FALSE, perkChoices |-> <<>>,
   nextMilestone |-> FIRST_MILESTONE, lastEnemySpawn |-> 0,
   enemySpeed |-> BASE_ENEMY_SPEED, mousePos |-> [x |-> 0, y |-> 0],
   now |-> 0, loop |-> [stats |-> BaseStats, perkOpen |-> FALSE],
   keySpeed |-> BASE_PLAYER_SPEED, picks |-> <<>>,
   projected |-> NoProjection, lastVolley |-> 0,
   frames |-> [pending |-> 0, live |-> FALSE], held |-> Unwatched,
   snakeGame |-> NewSnakeGame, nextId |-> 1]

\* the cells hold the state s
StateIs(s) ==
  /\ running = s.running /\ gameOver = s.gameOver /\ score = s.score
  /\ kills = s.kills /\ slpCount = s.slpCount
  /\ obstacles = s.obstacles /\ drops = s.drops /\ enemies = s.enemies
  /\ projectiles = s.projectiles /\ player = s.player /\ stats = s.stats
  /\ perkOpen = s.perkOpen /\ perkChoices = s.perkChoices
  /\ nextMilestone = s.nextMilestone /\ lastEnemySpawn = s.lastEnemySpawn
  /\ enemySpeed = s.enemySpeed /\ mousePos = s.mousePos /\ now = s.now
  /\ loop = s.loop /\ keySpeed = s.keySpeed /\ picks = s.picks
  /\ projected = s.projected /\ lastVolley = s.lastVolley
  /\ frames = s.frames /\ held = s.held
  /\ snakeGame = s.snakeGame
  /\ nextId = s.nextId

(* ------------------------- effect subscriptions ---------------------- *)

\* the effect looks at gameOver only
LoopActive_GameOverOnly == ~gameOver
\* the game-loop effect holds a pending frame
LoopActive == running /\ ~gameOver

\* frames.pending: the callbacks requested and neither run nor cancelled;
\* frames.live: the one animationId names is among them

\* animationId = requestAnimationFrame(gameLoop)
Requested(f) == [pending |-> f.pending + 1, live |-> TRUE]

\* the cleanup cancels nothing
Cancelled_Nothing(f) == f
\* cancelAnimationFrame(animationId)
Cancelled(f) ==
  IF f.live THEN [pending |-> f.pending - 1, live |-> FALSE] ELSE f

\* the browser runs the callback
Fired(f) == [pending |-> f.pending - 1, live |-> FALSE]

\* the effect runs again: the cleanup of the last run, then the setup
Resubscribed(f) ==
  IF running' /\ ~gameOver' THEN Requested(Cancelled(f)) ELSE Cancelled(f)

\* An update that changes none of the loop effect's dependencies leaves the
\* pending frame with the closure it has; any other re-subscribes it.
LoopKeeps == loop' = loop /\ frames' = frames
LoopRenewsAfter(f) ==
  /\ loop' = [stats |-> stats', perkOpen |-> perkOpen']
  /\ frames' = Resubscribed(f)
LoopRenews == LoopRenewsAfter(frames)

\* the handler effect re-subscribes when running, gameOver, player.x or
\* player.y changes
KeysFollow ==
  keySpeed' = IF <<running', gameOver', player'.x, player'.y>>
                   # <<running, gameOver, player.x, player.y>>
              THEN stats'.playerSpeed ELSE keySpeed

(* ------------------------------ handlers ----------------------------- *)

handleKeyDown(key) ==
  /\ UNCHANGED <<running, gameOver, score, kills, slpCount, obstacles, drops,
                 enemies, projectiles, stats, perkOpen, perkChoices,
                 nextMilestone, lastEnemySpawn, enemySpeed, mousePos, now,
                 keySpeed, picks, projected, lastVolley, snakeGame,
                 nextId>>
  /\ held' = KeyPressed(held, key)
  /\ IF ~running \/ gameOver
     THEN UNCHANGED <<player, loop, frames>>
     ELSE /\ player' =
               [player EXCEPT
                  !.vy = IF key = "w" THEN -keySpeed
                         ELSE IF key = "s" THEN keySpeed ELSE @,
                  !.vx = IF key = "a" THEN -keySpeed
                         ELSE IF key = "d" THEN keySpeed ELSE @]
          /\ LoopRenews

handleKeyUp(key) ==
  /\ UNCHANGED <<running, gameOver, score, kills, slpCount, obstacles, drops,
                 enemies, projectiles, stats, perkOpen, perkChoices,
                 nextMilestone, lastEnemySpawn, enemySpeed, mousePos, now,
                 keySpeed, picks, projected, lastVolley, snakeGame,
                 nextId>>
  /\ held' = KeyReleased(held, key)
  /\ IF ~running \/ gameOver
     THEN UNCHANGED <<player, loop, frames>>
     ELSE /\ player' =
               [player EXCEPT
                  !.vy = IF (key = "w" /\ player.vy < 0) \/ (key = "s" /\ player.vy > 0)
                         THEN 0 ELSE @,
                  !.vx = IF (key = "a" /\ player.vx < 0) \/ (key = "d" /\ player.vx > 0)
                         THEN 0 ELSE @]
          /\ LoopRenews

\* m: the pointer position on the canvas
handleMouseMove(m) ==
  LET pScr == project(player.x, player.y)
      dx == m.x - pScr.sx
      dy == m.y - pScr.sy
      distance == Sqrt(dx * dx + dy * dy)
  IN  /\ mousePos' = m
      /\ UNCHANGED <<running, gameOver, score, kills, slpCount, obstacles,
                     drops, enemies, projectiles, stats, perkOpen, perkChoices,
                     nextMilestone, lastEnemySpawn, enemySpeed, now, keySpeed,
                     picks, projected, lastVolley, held, snakeGame,
                 nextId>>
      /\ IF running /\ ~gameOver /\ distance > 0
         THEN /\ player' = [player EXCEPT !.aimX = TDiv(dx * AimOne, distance),
                                          !.aimY = TDiv(dy * AimOne, distance)]
              /\ LoopRenews
         ELSE UNCHANGED <<player, loop, frames>>

\* the reset leaves the obstacles in the arena
ResetCells_KeepsObstacles ==
  /\ gameOver' = FALSE /\ score' = 0 /\ kills' = 0
  /\ player' = StartPlayer
  /\ projectiles' = <<>> /\ enemies' = <<>> /\ drops' = <<>>
  /\ lastEnemySpawn' = 0
  /\ stats' = BaseStats
  /\ nextMilestone' = FIRST_MILESTONE
  /\ perkOpen' = FALSE
  /\ enemySpeed' = BASE_ENEMY_SPEED
  /\ UNCHANGED <<slpCount, perkChoices, mousePos, now, picks, projected,
                 lastVolley, held, snakeGame, obstacles, nextId>>
ResetCells_KeepsKills ==
  /\ gameOver' = FALSE /\ score' = 0 /\ kills' = kills
  /\ player' = StartPlayer
  /\ projectiles' = <<>> /\ enemies' = <<>> /\ drops' = <<>> /\ obstacles' = <<>>
  /\ lastEnemySpawn' = 0
  /\ stats' = BaseStats
  /\ nextMilestone' = FIRST_MILESTONE
  /\ perkOpen' = FALSE
  /\ enemySpeed' = BASE_ENEMY_SPEED
  /\ UNCHANGED <<slpCount, perkChoices, mousePos, now, picks, projected, lastVolley, held, snakeGame,
                 nextId>>
ResetCells_ClearsSlp ==
  /\ gameOver' = FALSE /\ score' = 0 /\ kills' = 0
  /\ player' = StartPlayer
  /\ projectiles' = <<>> /\ enemies' = <<>> /\ drops' = <<>> /\ obstacles' = <<>>
  /\ lastEnemySpawn' = 0
  /\ stats' = BaseStats
  /\ nextMilestone' = FIRST_MILESTONE
  /\ perkOpen' = FALSE
  /\ enemySpeed' = BASE_ENEMY_SPEED
  /\ slpCount' = 0
  /\ UNCHANGED <<perkChoices, mousePos, now, picks, projected, lastVolley, held, snakeGame,
                 nextId>>
\* the cells resetGame sets; running is set by the caller
ResetCells ==
  /\ gameOver' = FALSE /\ score' = 0 /\ kills' = 0
  /\ player' = StartPlayer
  /\ projectiles' = <<>> /\ enemies' = <<>> /\ drops' = <<>> /\ obstacles' = <<>>
  /\ lastEnemySpawn' = 0
  /\ stats' = BaseStats
  /\ nextMilestone' = FIRST_MILESTONE
  /\ perkOpen' = FALSE
  /\ enemySpeed' = BASE_ENEMY_SPEED
  /\ UNCHANGED <<slpCount, perkChoices, mousePos, now, picks, projected, lastVolley, held, snakeGame,
                 nextId>>

resetGame ==
  /\ running' = FALSE
  /\ ResetCells
  /\ LoopRenews
  /\ KeysFollow

toggleRunning ==
  IF gameOver
  THEN /\ ResetCells
       /\ running' = TRUE
       /\ LoopRenews
       /\ KeysFollow
  ELSE /\ running' = ~running
       /\ UNCHANGED <<gameOver, score, kills, slpCount, obstacles, drops,
                      enemies, projectiles, player, stats, perkOpen,
                      perkChoices, nextMilestone, lastEnemySpawn, enemySpeed,
                      mousePos, now, picks, projected, lastVolley, held, snakeGame,
                 nextId>>
       /\ LoopRenews
       /\ KeysFollow

\* piercing also adds an arrow
PerkStats_Spills(prev, id) ==
  IF id = "pierce"
  THEN [prev EXCEPT !.pierce = TRUE, !.arrowCount = prev.arrowCount + 1]
  ELSE prev
\* the perk costs an arrow
PerkStats_Worse(prev, id) == [prev EXCEPT !.arrowCount = prev.arrowCount - 1]
PerkStats(prev, id) ==
  IF id = "arrow_speed"
  THEN [prev EXCEPT !.projectileSpeed = TDiv(prev.projectileSpeed * 11, 10)]
  ELSE IF id = "player_speed"
  THEN [prev EXCEPT !.playerSpeed = TDiv(prev.playerSpeed * 5, 4)]
  ELSE IF id = "arrow_count"
  THEN [prev EXCEPT !.arrowCount = prev.arrowCount + 1]
  ELSE IF id = "pierce"
  THEN [prev EXCEPT !.pierce = TRUE]
  ELSE IF id = "ricochet"
  THEN [prev EXCEPT !.ricochet = TRUE]
  ELSE prev

\* the perk starts the game whatever its state
PerkRunning_Always == TRUE
\* the perk leaves running as it is
PerkRunning_Stays == running
\* if (!gameOver) setRunning(true)
PerkRunning == IF ~gameOver THEN TRUE ELSE running

\* the prompt shows perkChoices only while perkOpen
applyPerk(id) ==
  /\ perkOpen
  /\ \E k \in 1..Len(perkChoices) : perkChoices[k] = id
  /\ stats' = PerkStats(stats, id)
  /\ perkOpen' = FALSE
  /\ running' = PerkRunning
  /\ UNCHANGED <<gameOver, score, kills, slpCount, obstacles, drops, enemies,
                 projectiles, player, perkChoices, nextMilestone,
                 lastEnemySpawn, enemySpeed, mousePos, now, picks, projected, lastVolley, held, snakeGame,
                 nextId>>
  /\ IF LoopActive THEN LoopKeeps ELSE LoopRenews
  /\ KeysFollow

(* ---------------------------- random draws --------------------------- *)

\* Math.random() in thousandths, as the pairs a placement attempt draws
SpawnRand == {<<500, 900>>, <<500, 500>>}
FallbackRand == {<<528, 500>>, <<510, 500>>, <<0, 0>>}
ObstacleRand == {<<500, 700>>, <<500, 500>>, <<900, 100>>}
\* Math.random() in hundredths, as the drop roll draws it
RollRand == {10, 60}
\* Math.floor(Math.random() * 2)
CountRand == {0, 1}

RECURSIVE RejectionSample(_, _, _, _)
\* what a loop of at most n attempts can end with: an accepted sample, or
\* the fallback once every attempt drew a rejected one
RejectionSample(accepted, rejected, fallback, n) ==
  IF n = 0 THEN fallback
  ELSE accepted \cup
       (IF rejected # {}
        THEN RejectionSample(accepted, rejected, fallback, n - 1) ELSE {})

(* ------------------------------ spawnEnemy --------------------------- *)

EnemySample(r) ==
  LET y == Fx(40) + TDiv(r[1] * (canvasHeight - Fx(80)), 1000)
      hw == halfWAt(y) - Fx(40)
  IN  [x |-> cxArena - hw + TDiv(r[2] * (hw * 2), 1000), y |-> y]

\* every sample is accepted
EnemySampleValid_Always(p) == TRUE
EnemySampleValid(p) ==
  /\ DistMore(player.x - p.x, player.y - p.y, ENEMY_MIN_DIST)
  /\ ~checkObstacleCollision(obstacles, p.x, p.y, Fx(12))

EnemyFallback(r) ==
  [x |-> canvasWidth \div 2 + TDiv((r[1] - 500) * (canvasWidth - Fx(200)), 1000),
   y |-> canvasHeight \div 2 + TDiv((r[2] - 500) * (canvasHeight - Fx(200)), 1000)]

\* the positions the placement loop of spawnEnemy can end with
SpawnPoints ==
  LET S == {EnemySample(r) : r \in SpawnRand}
  IN  RejectionSample({p \in S : EnemySampleValid(p)},
                      {p \in S : ~EnemySampleValid(p)},
                      {EnemyFallback(r) : r \in FallbackRand}, MAX_ATTEMPTS)

\* no cap check: every due spawn appends an enemy
CapReached_Never == FALSE
\* the cap check of spawnEnemy
CapReached == Len(enemies) >= MAX_ENEMIES

\* the enemies spawnEnemy appends, placed at p
spawnEnemy(time, p) ==
  IF CapReached THEN <<>>
  ELSE <<[x |-> p.x, y |-> p.y, vx |-> 0, vy |-> 0, radius |-> ENEMY_RADIUS,
          spawnInvulUntil |-> time + spawnInvul, id |-> nextId]>>

(* ---------------------------- fireProjectile ------------------------- *)

\* angles in 1/10000 rad; cos and sin of the small fan offsets by their series
CosOf(o) == 10000 - TDiv(o * o, 20000)
SinOf(o) == o - TDiv(TDiv(o * o, 10000) * o, 60000)

ShotOffset(count, i) ==
  LET spread == Min(3000, 800 * (count - 1))
  IN  IF count = 1 THEN 0 ELSE -(spread \div 2) + TDiv(spread * i, count - 1)

\* the shots fireProjectile appends; ids from firstId on
fireProjectile(time, firstId) ==
  LET count == loop.stats.arrowCount
      shot(i) ==
        LET o == ShotOffset(count, i)
            dirX == TDiv(player.aimX * CosOf(o) - player.aimY * SinOf(o), 10000)
            dirY == TDiv(player.aimY * CosOf(o) + player.aimX * SinOf(o), 10000)
        IN  [x |-> player.x, y |-> player.y,
             vx |-> TDiv(dirX * loop.stats.projectileSpeed, AimOne),
             vy |-> TDiv(dirY * loop.stats.projectileSpeed, AimOne),
             radius |-> PROJECTILE_RADIUS, createdAt |-> time,
             piercesLeft |-> IF loop.stats.pierce THEN 1 ELSE 0,
             canRicochet |-> loop.stats.ricochet, id |-> firstId + i]
  IN  [k \in 1..count |-> shot(k - 1)]

(* ------------------------------ movement ----------------------------- *)

\* the updater moves the player and forgets the velocity
MovePlayer_Stops(prev) ==
  [prev EXCEPT !.x = prev.x + prev.vx, !.y = prev.y + prev.vy,
               !.vx = 0, !.vy = 0]
\* the player updater of a frame
MovePlayer(prev) ==
  LET newX0 == prev.x + prev.vx
      newY0 == prev.y + prev.vy
      newX1 == IF checkObstacleCollision(obstacles, newX0, prev.y, prev.radius)
               THEN prev.x ELSE newX0
      newY1 == IF checkObstacleCollision(obstacles, prev.x, newY0, prev.radius)
               THEN prev.y ELSE newY0
      hw == halfWAt(newY1) - prev.radius
      minX == cxArena - hw
      maxX == cxArena + hw
  IN  [prev EXCEPT !.x = Max(minX, Min(maxX, newX1)),
                   !.y = Max(prev.radius, Min(canvasHeight - prev.radius, newY1))]

\* the index of the first obstacle the circle collides with, 0 if none
FirstObstacle(x, y, r) ==
  LET H == {k \in 1..Len(obstacles) : circleRectCollides(x, y, r, obstacles[k])}
  IN  IF H = {} THEN 0 ELSE CHOOSE k \in H : \A j \in H : k <= j

\* one projectile through the projectile updater: gone, or its next record
StepProjectile(p, timestamp) ==
  LET nx0 == p.x + p.vx
      ny0 == p.y + p.vy
      hwN == halfWAt(ny0) - p.radius
      side == nx0 < cxArena - hwN \/ nx0 > cxArena + hwN
      vx1 == IF side THEN -p.vx ELSE p.vx
      nx1 == IF side THEN p.x + vx1 ELSE nx0
      edge == ny0 < p.radius \/ ny0 > canvasHeight - p.radius
      vy1 == IF edge THEN -p.vy ELSE p.vy
      ny1 == IF edge THEN p.y + vy1 ELSE ny0
      k == FirstObstacle(nx1, ny1, p.radius)
      hitAxis == IF k = 0 THEN "none"
                 ELSE circleRectCollisionAxis(nx1, ny1, p.radius, obstacles[k])
      vx2 == IF hitAxis = "x" THEN -vx1 ELSE vx1
      vy2 == IF hitAxis = "y" THEN -vy1 ELSE vy1
  IN  IF timestamp - p.createdAt >= projectileLifetime
      THEN [gone |-> TRUE, p |-> p]
      ELSE IF ~p.canRicochet /\ (side \/ edge \/ k # 0)
      THEN [gone |-> TRUE, p |-> p]
      ELSE [gone |-> FALSE,
            p |-> [p EXCEPT !.x = IF k = 0 THEN nx1 ELSE p.x + vx2,
                            !.y = IF k = 0 THEN ny1 ELSE p.y + vy2,
                            !.vx = vx2, !.vy = vy2]]

Kept(r) == ~r.gone

\* the projectile updater of a frame
MoveProjectiles(prev, timestamp) ==
  LET stepped == SelectSeq([k \in 1..Len(prev) |-> StepProjectile(prev[k], timestamp)],
                           Kept)
  IN  [k \in 1..Len(stepped) |-> stepped[k].p]

\* one enemy through the enemy updater
MoveEnemy(enemy) ==
  LET dx == player.x - enemy.x
      dy == player.y - enemy.y
      distance == Sqrt(dx * dx + dy * dy)
      vx == IF distance > 0 THEN TDiv(dx * enemySpeed, distance * 10) ELSE 0
      vy == IF distance > 0 THEN TDiv(dy * enemySpeed, distance * 10) ELSE 0
      newX0 == enemy.x + vx
      newY0 == enemy.y + vy
      newX1 == IF checkObstacleCollision(obstacles, newX0, enemy.y, enemy.radius)
               THEN enemy.x ELSE newX0
      newY1 == IF checkObstacleCollision(obstacles, enemy.x, newY0, enemy.radius)
               THEN enemy.y ELSE newY0
      hw == halfWAt(newY1) - enemy.radius
  IN  [enemy EXCEPT !.x = Max(cxArena - hw, Min(cxArena + hw, newX1)),
                    !.y = Max(enemy.radius,
                              Min(canvasHeight - enemy.radius, newY1)),
                    !.vx = vx, !.vy = vy]

MoveEnemies(prev) == [k \in 1..Len(prev) |-> MoveEnemy(prev[k])]

(* ----------------------------- combat pass --------------------------- *)

\* the last overlapping projectile takes the hit
FirstHit_Last(enemy, projs) ==
  LET H == {i \in 1..Len(projs) :
              DistLess(projs[i].x - enemy.x, projs[i].y - enemy.y,
                       projs[i].radius + enemy.radius)}
  IN  IF H = {} THEN 0 ELSE CHOOSE i \in H : \A j \in H : i >= j
\* index of the first projectile of the frame's snapshot that overlaps the
\* enemy, 0 if none
FirstHit(enemy, projs) ==
  LET H == {i \in 1..Len(projs) :
              DistLess(projs[i].x - enemy.x, projs[i].y - enemy.y,
                       projs[i].radius + enemy.radius)}
  IN  IF H = {} THEN 0 ELSE CHOOSE i \in H : \A j \in H : i <= j

\* newProjectiles.filter((_, index) => index !== i), i counted from 1
FilterIndex(seq, i) ==
  IF i \in 1..Len(seq)
  THEN SubSeq(seq, 1, i - 1) \o SubSeq(seq, i + 1, Len(seq))
  ELSE seq

\* the skip of an enemy within its spawn invulnerability
Invulnerable_NoSkip(enemy, timestamp) == FALSE
Invulnerable(enemy, timestamp) == timestamp < enemy.spawnInvulUntil

\* the contact test of the player and an enemy
Contact_Difference(enemy) ==
  DistLess(player.x - enemy.x, player.y - enemy.y,
           player.radius - enemy.radius)
Contact(enemy) ==
  DistLess(player.x - enemy.x, player.y - enemy.y,
           player.radius + enemy.radius)

\* if (projectile.piercesLeft > 0)
CanPierce_Always(projectile) == TRUE
CanPierce(projectile) == projectile.piercesLeft > 0

\* c.projs: the snapshot's projectile objects (piercesLeft is decremented in
\* place); c.keep: newProjectiles, as indices into the snapshot;
\* c.killed: the snapshot indices of the enemies filtered out of newEnemies
RECURSIVE CombatFrom(_, _, _)
CombatFrom(k, timestamp, c) ==
  IF k > Len(enemies) THEN c
  ELSE
    LET enemy == enemies[k]
        i == FirstHit(enemy, c.projs)
    IN  IF Invulnerable(enemy, timestamp)
        THEN CombatFrom(k + 1, timestamp, c)
        ELSE IF Contact(enemy)
        THEN [c EXCEPT !.newGameOver = TRUE]
        ELSE IF i = 0
        THEN CombatFrom(k + 1, timestamp, c)
        ELSE IF CanPierce(c.projs[i])
        THEN CombatFrom(k + 1, timestamp,
               [c EXCEPT !.killed = Append(@, k),
                         !.projs[i].piercesLeft = @ - 1])
        ELSE CombatFrom(k + 1, timestamp,
               [c EXCEPT !.killed = Append(@, k),
                         !.keep = FilterIndex(@, i),
                         !.projectilesChanged = TRUE])

Combat(timestamp) ==
  CombatFrom(1, timestamp,
             [newGameOver |-> gameOver, killed |-> <<>>, projs |-> projectiles,
              keep |-> [i \in 1..Len(projectiles) |-> i],
              projectilesChanged |-> FALSE])

\* newEnemies: the snapshot without the killed
NewEnemies(c) ==
  LET dead == {c.killed[j] : j \in 1..Len(c.killed)}
      alive(k) == k \notin dead
      idx == SelectSeq([k \in 1..Len(enemies) |-> k], alive)
  IN  [j \in 1..Len(idx) |-> enemies[idx[j]]]

NewProjectiles(c) == [j \in 1..Len(c.keep) |-> c.projs[c.keep[j]]]

\* the drops pushed for the kills whose roll is below dropChance
RECURSIVE PushedDrops(_, _, _)
PushedDrops(c, rolls, j) ==
  IF j > Len(c.killed) THEN <<>>
  ELSE (IF rolls[j] < dropChance
        THEN <<[x |-> enemies[c.killed[j]].x, y |-> enemies[c.killed[j]].y,
                radius |-> DROP_RADIUS]>>
        ELSE <<>>) \o PushedDrops(c, rolls, j + 1)

\* no drop is within reach
Picked_Never(drop) == FALSE
Picked(drop) ==
  DistLess(player.x - drop.x, player.y - drop.y, player.radius + drop.radius)

NotPicked(drop) == ~Picked(drop)

(* ----------------------------- milestone ----------------------------- *)

\* setNextMilestone(nextMilestone + 10)
AdvanceMilestone_Same(m) == m
AdvanceMilestone(m) == m + MILESTONE_STEP

\* picks as the draw loop leaves them: three pool entries, no id twice
DrawResults ==
  {s \in [1..3 -> PerkIds] : \A a, b \in 1..3 : a # b => s[a] # s[b]}

ObstacleSample(r) ==
  LET y == Fx(50) + TDiv(r[1] * (canvasHeight - Fx(100)), 1000)
      diam == player.radius * 2
      margin == diam \div 2 + Fx(8)
      hw == halfWAt(y) - margin
  IN  [x |-> cxArena - hw + TDiv(r[2] * (hw * 2), 1000), y |-> y]

\* no overlap test: only the distance from the player is checked
ObstacleSampleValid_Anywhere(p, others) ==
  DistMore(player.x - p.x, player.y - p.y, OBSTACLE_MIN_DIST)
\* others: [...obstacles, ...newObstacles]
ObstacleSampleValid(p, others) ==
  LET diam == player.radius * 2
  IN  /\ DistMore(player.x - p.x, player.y - p.y, OBSTACLE_MIN_DIST)
      /\ ~\E k \in 1..Len(others) :
            /\ 2 * Abs(p.x - others[k].x) < diam + others[k].width
            /\ 2 * Abs(p.y - others[k].y) < diam * 2 + others[k].height

\* what one round of spawnObstacles pushes: one obstacle, or nothing when
\* no attempt found a valid position
PlaceObstacle(newObstacles) ==
  LET S == {ObstacleSample(r) : r \in ObstacleRand}
      diam == player.radius * 2
      ok(p) == ObstacleSampleValid(p, obstacles \o newObstacles)
  IN  RejectionSample(
        {<<[x |-> p.x, y |-> p.y, width |-> diam, height |-> diam * 2]>> :
           p \in {q \in S : ok(q)}},
        {q \in S : ~ok(q)}, {<<>>}, MAX_ATTEMPTS)

\* the newObstacles spawnObstacles can append
spawnObstacles ==
  UNION {IF n = 0
         THEN PlaceObstacle(<<>>)
         ELSE UNION {{a \o b : b \in PlaceObstacle(a)} :
                       a \in PlaceObstacle(<<>>)} :
         n \in CountRand}

(* ------------------------------ gameLoop ----------------------------- *)

\* the volley is due whenever the interval has passed
FireDue_Moving(timestamp) == timestamp - player.lastFireTime >= fireRate
\* the condition under which a frame calls fireProjectile
FireDue(timestamp) ==
  /\ player.vx = 0 /\ player.vy = 0
  /\ timestamp - player.lastFireTime >= fireRate

\* One animation frame at `timestamp` and the render that commits it.
\* p: where spawnEnemy places; rolls: the drop rolls of the kills;
\* drawn: the perk draw; newObstacles: what spawnObstacles appends.
gameLoop(timestamp, p, rolls, drawn, newObstacles) ==
  LET spawns == timestamp - lastEnemySpawn >= enemySpawnRate
      spawned == IF spawns THEN spawnEnemy(timestamp, p) ELSE <<>>
      fires == FireDue(timestamp)
      newShots == IF fires THEN fireProjectile(timestamp, nextId + Len(spawned))
                  ELSE <<>>
      c == Combat(timestamp)
      newKills == kills + Len(c.killed)
      enemiesChanged == c.killed # <<>>
      pushed == PushedDrops(c, rolls, 1)
      newDrops == drops \o pushed
      remainingDrops == SelectSeq(newDrops, NotPicked)
      newSlp == slpCount + (Len(newDrops) - Len(remainingDrops))
      dropsChanged == pushed # <<>> \/ Len(remainingDrops) # Len(newDrops)
      milestone == newKills >= nextMilestone /\ ~loop.perkOpen
  IN  /\ now' = timestamp
      /\ lastEnemySpawn' = IF spawns THEN timestamp ELSE lastEnemySpawn
      /\ player' = MovePlayer(IF fires
                              THEN [player EXCEPT !.lastFireTime = timestamp]
                              ELSE player)
      /\ projectiles' = IF c.projectilesChanged
                        THEN NewProjectiles(c)
                        ELSE MoveProjectiles(c.projs \o newShots, timestamp)
      /\ enemies' = IF enemiesChanged
                    THEN NewEnemies(c)
                    ELSE MoveEnemies(enemies \o spawned)
      /\ gameOver' = c.newGameOver
      /\ kills' = newKills
      /\ slpCount' = newSlp
      /\ drops' = IF dropsChanged THEN remainingDrops ELSE drops
      /\ IF milestone
         THEN /\ perkChoices' = drawn
              /\ perkOpen' = TRUE
              /\ enemySpeed' = TDiv(enemySpeed * 11, 10)
              /\ nextMilestone' = AdvanceMilestone(nextMilestone)
              /\ obstacles' = obstacles \o newObstacles
         ELSE UNCHANGED <<perkChoices, perkOpen, enemySpeed, nextMilestone,
                          obstacles>>
      /\ running' = IF milestone \/ c.newGameOver THEN FALSE ELSE running
      /\ nextId' = nextId + Len(spawned) + Len(newShots)
      /\ UNCHANGED <<score, stats, mousePos, picks, projected, held, snakeGame>>
      /\ lastVolley' = IF fires THEN timestamp ELSE lastVolley
      /\ LoopRenewsAfter(IF c.newGameOver THEN Fired(frames)
                         ELSE Requested(Fired(frames)))
      /\ KeysFollow

\* the inputs of a frame at `timestamp`, each drawn only where the frame
\* reads it
Frame(timestamp) ==
  /\ LoopActive
  /\ LET c == Combat(timestamp)
         spawns == /\ timestamp - lastEnemySpawn >= enemySpawnRate
                   /\ ~CapReached
         milestone == kills + Len(c.killed) >= nextMilestone /\ ~loop.perkOpen
     IN  \E p \in IF spawns THEN SpawnPoints ELSE {[x |-> 0, y |-> 0]} :
         \E rolls \in [1..Len(c.killed) -> RollRand] :
         \E drawn \in IF milestone THEN DrawResults ELSE {<<>>} :
         \E newObstacles \in IF milestone THEN spawnObstacles ELSE {<<>>} :
           gameLoop(timestamp, p, rolls, drawn, newObstacles)

(* --------------------------- specification --------------------------- *)

\* bounds of the model
MaxTime == 40000

Keys == {"s", "d"}
Pointers == {[x |-> Fx(640), y |-> Fx(100)]}
\* the time from one frame to the next
FrameGaps == {200, 400}
\* the timestamp of the first frame of a run started from the constructed
\* state: Start is pressed 39.6 s after the page has loaded
FirstFrame == 39600

Timestamps == IF now = 0 THEN {FirstFrame} ELSE {now + d : d \in FrameGaps}

(* States of longer runs.  Each is the state a run from the constructed  *)
(* state is in after the inputs named with it; the model starts there     *)
(* as well, so that what follows such a run is within the bounds.         *)

\* Start at 18 s; nineteen frames 1200 ms apart and one 200 ms later, the
\* player at rest aiming right; every enemy by the fallback placement
\* EnemyFallback(<<528, 500>>), 30 units right of the player; no drop.
NineKills ==
  [Constructed EXCEPT
     !.running = TRUE,
     !.frames = [pending |-> 1, live |-> TRUE],
     !.kills = 9,
     !.enemies = <<[x |-> 16692, y |-> 9000, radius |-> 300, vx |-> -32, vy
            |-> 0, id |-> 35, spawnInvulUntil |-> 38700]>>,
     !.projectiles = <<[x |-> 16300, y |-> 9000, radius |-> 100, vx |->
            150, vy |-> 0, id |-> 36, createdAt |-> 38400, piercesLeft |->
            0, canRicochet |-> FALSE]>>,
     !.player = [x |-> 16000, y |-> 9000, radius |-> 350, vx |-> 0, vy |->
            0, aimX |-> 1000, aimY |-> 0, lastFireTime |-> 39600],
     !.lastVolley = 39600,
     !.lastEnemySpawn = 39600,
     !.now = 39800,
     !.nextId = 39]

\* Start at 39.055 s, then s and d are pressed and held; 110 frames 5 ms
\* apart; the one enemy is placed at the first frame by EnemySample(<<0, 0>>),
\* the top left corner of the arena.  The player is 16.8 units above the
\* bottom edge and 1 unit inside the right edge.
Corner ==
  [Constructed EXCEPT
     !.running = TRUE,
     !.frames = [pending |-> 1, live |-> TRUE],
     !.enemies = <<[x |-> 13649, y |-> 3876, radius |-> 300, vx |-> 20, vy
            |-> 25, id |-> 1, spawnInvulUntil |-> 39355]>>,
     !.player = [x |-> 24520, y |-> 17580, radius |-> 350, vx |-> 78, vy
            |-> 78, aimX |-> 1000, aimY |-> 0, lastFireTime |-> 0],
     !.lastEnemySpawn = 39055,
     !.now = 39600,
     !.nextId = 2]

\* The run of NineKills begun at 17.6 s, and one more frame 200 ms
\* later, at 39.6 s: the tenth kill opens the prompt, and spawnObstacles
\* places one obstacle at ObstacleSample(<<766, 756>>).  Then the perk
\* pierce is chosen, s and d are pressed and held, and 40 frames 5 ms apart
\* follow.  The player is above and left of the obstacle's upper left
\* corner.
BesideObstacle ==
  [Constructed EXCEPT
     !.running = TRUE,
     !.frames = [pending |-> 1, live |-> TRUE],
     !.kills = 10,
     !.obstacles = <<[x |-> 19772, y |-> 13123, width |-> 700, height |->
            1400]>>,
     !.player = [x |-> 19120, y |-> 12120, radius |-> 350, vx |-> 78, vy
            |-> 78, aimX |-> 1000, aimY |-> 0, lastFireTime |-> 39200],
     !.lastVolley = 39200,
     !.stats = [playerSpeed |-> 78, projectileSpeed |-> 150, arrowCount |->
            1, pierce |-> TRUE, ricochet |-> FALSE],
     !.perkChoices = <<"pierce", "arrow_count", "ricochet">>,
     !.nextMilestone = 20,
     !.lastEnemySpawn = 39200,
     !.enemySpeed = 357,
     !.now = 39800,
     !.loop = [perkOpen |-> FALSE, stats |-> [playerSpeed |-> 78,
            projectileSpeed |-> 150, arrowCount |-> 1, pierce |-> TRUE,
            ricochet |-> FALSE]],
     !.nextId = 39]

\* Start at 38.3 s; seven frames 250 ms apart, the player at rest aiming
\* right.  The first frame places an enemy by EnemyFallback(<<559, 500>>),
\* 63.7 units right of the player, the sixth another by
\* EnemyFallback(<<528, 521>>); the first, third, fifth and seventh frame
\* fire.  The oldest projectile is about to overlap the first enemy, and
\* the second projectile the second enemy.
TwoHits ==
  [Constructed EXCEPT
     !.running = TRUE,
     !.frames = [pending |-> 1, live |-> TRUE],
     !.enemies = <<[x |-> 17369, y |-> 9000, radius |-> 300, vx |-> -32, vy
            |-> 0, id |-> 1, spawnInvulUntil |-> 38600], [x |-> 16696, y
            |-> 9251, radius |-> 300, vx |-> -30, vy |-> -11, id |-> 5,
            spawnInvulUntil |-> 39850]>>,
     !.projectiles = <<[x |-> 17050, y |-> 9000, radius |-> 100, vx |->
            150, vy |-> 0, id |-> 2, createdAt |-> 38300, piercesLeft |->
            0, canRicochet |-> FALSE], [x |-> 16750, y |-> 9000, radius |->
            100, vx |-> 150, vy |-> 0, id |-> 3, createdAt |-> 38800,
            piercesLeft |-> 0, canRicochet |-> FALSE], [x |-> 16450, y |->
            9000, radius |-> 100, vx |-> 150, vy |-> 0, id |-> 4, createdAt
            |-> 39300, piercesLeft |-> 0, canRicochet |-> FALSE], [x |->
            16150, y |-> 9000, radius |-> 100, vx |-> 150, vy |-> 0, id |->
            6, createdAt |-> 39800, piercesLeft |-> 0, canRicochet |->
            FALSE]>>,
     !.player = [x |-> 16000, y |-> 9000, radius |-> 350, vx |-> 0, vy |->
            0, aimX |-> 1000, aimY |-> 0, lastFireTime |-> 39800],
     !.lastVolley = 39800,
     !.lastEnemySpawn = 39550,
     !.now = 39800,
     !.nextId = 7]

\* The run of NineKills begun at 16.7 s, and the frame at 38.7 s whose tenth
\* kill opens the prompt; the perk pierce is chosen; frames at 38.95 s,
\* 39.5 s and 39.8 s, the player at rest: the first and the second fire,
\* the second places an enemy by EnemyFallback(<<528, 500>>).  The older
\* projectile is about to overlap the enemy.
Piercing ==
  [Constructed EXCEPT
     !.running = TRUE,
     !.frames = [pending |-> 1, live |-> TRUE],
     !.kills = 10,
     !.obstacles = <<[x |-> 19772, y |-> 13123, width |-> 700, height |->
            1400]>>,
     !.enemies = <<[x |-> 16686, y |-> 9000, radius |-> 300, vx |-> -35, vy
            |-> 0, id |-> 40, spawnInvulUntil |-> 39800]>>,
     !.projectiles = <<[x |-> 16450, y |-> 9000, radius |-> 100, vx |->
            150, vy |-> 0, id |-> 39, createdAt |-> 38950, piercesLeft |->
            1, canRicochet |-> FALSE], [x |-> 16300, y |-> 9000, radius |->
            100, vx |-> 150, vy |-> 0, id |-> 41, createdAt |-> 39500,
            piercesLeft |-> 1, canRicochet |-> FALSE]>>,
     !.player = [x |-> 16000, y |-> 9000, radius |-> 350, vx |-> 0, vy |->
            0, aimX |-> 1000, aimY |-> 0, lastFireTime |-> 39500],
     !.lastVolley = 39500,
     !.stats = [playerSpeed |-> 78, projectileSpeed |-> 150, arrowCount |->
            1, pierce |-> TRUE, ricochet |-> FALSE],
     !.perkChoices = <<"pierce", "arrow_count", "ricochet">>,
     !.nextMilestone = 20,
     !.lastEnemySpawn = 39500,
     !.enemySpeed = 357,
     !.now = 39800,
     !.loop = [perkOpen |-> FALSE, stats |-> [playerSpeed |-> 78,
            projectileSpeed |-> 150, arrowCount |-> 1, pierce |-> TRUE,
            ricochet |-> FALSE]],
     !.nextId = 42]

\* The run of NineKills begun at 16.8 s, and the frame at 38.8 s whose tenth
\* kill opens the prompt; no perk is chosen, Start is clicked; frames at
\* 39.6 s and 39.8 s, the player at rest: the first fires and places an
\* enemy by EnemyFallback(<<510, 500>>), 10.8 units right of the player.
\* The loop runs behind the open prompt, and the enemy touches the player.
PromptIgnored ==
  [Constructed EXCEPT
     !.running = TRUE,
     !.frames = [pending |-> 1, live |-> TRUE],
     !.kills = 10,
     !.obstacles = <<[x |-> 19772, y |-> 13123, width |-> 700, height |->
            1400]>>,
     !.enemies = <<[x |-> 16200, y |-> 9000, radius |-> 300, vx |-> -35, vy
            |-> 0, id |-> 39, spawnInvulUntil |-> 39900]>>,
     !.projectiles = <<[x |-> 16300, y |-> 9000, radius |-> 100, vx |->
            150, vy |-> 0, id |-> 40, createdAt |-> 39600, piercesLeft |->
            0, canRicochet |-> FALSE]>>,
     !.player = [x |-> 16000, y |-> 9000, radius |-> 350, vx |-> 0, vy |->
            0, aimX |-> 1000, aimY |-> 0, lastFireTime |-> 39600],
     !.lastVolley = 39600,
     !.perkOpen = TRUE,
     !.perkChoices = <<"pierce", "arrow_count", "ricochet">>,
     !.nextMilestone = 20,
     !.lastEnemySpawn = 39600,
     !.enemySpeed = 357,
     !.now = 39800,
     !.loop = [perkOpen |-> TRUE, stats |-> [playerSpeed |-> 78,
            projectileSpeed |-> 150, arrowCount |-> 1, pierce |-> FALSE,
            ricochet |-> FALSE]],
     !.nextId = 41]

\* Start at 39.5 s; frames at 39.5 s and 39.8 s, the player at rest aiming
\* right.  The first frame fires and places an enemy by
\* EnemyFallback(<<528, 500>>).  The projectile is about to overlap the
\* enemy, and 500 ms after the shot the next one is due.
ShotDue ==
  [Constructed EXCEPT
     !.running = TRUE,
     !.frames = [pending |-> 1, live |-> TRUE],
     !.enemies = <<[x |-> 16692, y |-> 9000, radius |-> 300, vx |-> -32, vy
            |-> 0, id |-> 1, spawnInvulUntil |-> 39800]>>,
     !.projectiles = <<[x |-> 16300, y |-> 9000, radius |-> 100, vx |->
            150, vy |-> 0, id |-> 2, createdAt |-> 39500, piercesLeft |->
            0, canRicochet |-> FALSE]>>,
     !.player = [x |-> 16000, y |-> 9000, radius |-> 350, vx |-> 0, vy |->
            0, aimX |-> 1000, aimY |-> 0, lastFireTime |-> 39500],
     !.lastVolley = 39500,
     !.lastEnemySpawn = 39500,
     !.now = 39800,
     !.nextId = 3]

\* Start at 38.8 s; frames at 38.8 s and 39.8 s, the player at rest aiming
\* right.  The first frame fires and places an enemy by
\* EnemyFallback(<<528, 500>>), the second fires.  The older projectile is
\* about to overlap the enemy, and 1200 ms after the spawn the next one is
\* due.
SpawnDue ==
  [Constructed EXCEPT
     !.running = TRUE,
     !.frames = [pending |-> 1, live |-> TRUE],
     !.enemies = <<[x |-> 16692, y |-> 9000, radius |-> 300, vx |-> -32, vy
            |-> 0, id |-> 1, spawnInvulUntil |-> 39100]>>,
     !.projectiles = <<[x |-> 16300, y |-> 9000, radius |-> 100, vx |->
            150, vy |-> 0, id |-> 2, createdAt |-> 38800, piercesLeft |->
            0, canRicochet |-> FALSE], [x |-> 16150, y |-> 9000, radius |->
            100, vx |-> 150, vy |-> 0, id |-> 3, createdAt |-> 39800,
            piercesLeft |-> 0, canRicochet |-> FALSE]>>,
     !.player = [x |-> 16000, y |-> 9000, radius |-> 350, vx |-> 0, vy |->
            0, aimX |-> 1000, aimY |-> 0, lastFireTime |-> 39800],
     !.lastVolley = 39800,
     !.lastEnemySpawn = 38800,
     !.now = 39800,
     !.nextId = 4]

\* Start at 39 s; frames at 39 s, 39.3 s and 39.5 s, the player at rest
\* aiming right: the first fires and places an enemy by
\* EnemyFallback(<<528, 500>>), the third kills it 27.7 units from the
\* player and the kill leaves a drop.  Then "d" is pressed and the frame at
\* 39.8 s moves the player to 24.6 units from the drop.
DropNear ==
  [Constructed EXCEPT
     !.running = TRUE,
     !.frames = [pending |-> 1, live |-> TRUE],
     !.kills = 1,
     !.drops = <<[x |-> 16692, y |-> 9000, radius |-> 300]>>,
     !.player = [x |-> 16078, y |-> 9000, radius |-> 350, vx |-> 78, vy |->
            0, aimX |-> 1000, aimY |-> 0, lastFireTime |-> 39500],
     !.lastVolley = 39500,
     !.lastEnemySpawn = 39000,
     !.now = 39800,
     !.nextId = 4]

\* The run of Piercing up to the prompt, where the perk ricochet is chosen;
\* a frame at 39 s fires, forty-three frames 10 ms apart follow, the frame
\* at 39.5 s fires again and places an enemy by
\* EnemyFallback(<<528, 500>>), then a frame at 39.8 s.  The older
\* projectile is one step from the right wall of its row, the newer one is
\* about to overlap the enemy.
Rebound ==
  [Constructed EXCEPT
     !.running = TRUE,
     !.frames = [pending |-> 1, live |-> TRUE],
     !.kills = 10,
     !.obstacles = <<[x |-> 19772, y |-> 13123, width |-> 700, height |->
            1400]>>,
     !.enemies = <<[x |-> 16686, y |-> 9000, radius |-> 300, vx |-> -35, vy
            |-> 0, id |-> 40, spawnInvulUntil |-> 39800]>>,
     !.projectiles = <<[x |-> 22900, y |-> 9000, radius |-> 100, vx |->
            150, vy |-> 0, id |-> 39, createdAt |-> 39000, piercesLeft |->
            0, canRicochet |-> TRUE], [x |-> 16300, y |-> 9000, radius |->
            100, vx |-> 150, vy |-> 0, id |-> 41, createdAt |-> 39500,
            piercesLeft |-> 0, canRicochet |-> TRUE]>>,
     !.player = [x |-> 16000, y |-> 9000, radius |-> 350, vx |-> 0, vy |->
            0, aimX |-> 1000, aimY |-> 0, lastFireTime |-> 39500],
     !.lastVolley = 39500,
     !.stats = [playerSpeed |-> 78, projectileSpeed |-> 150, arrowCount |->
            1, pierce |-> FALSE, ricochet |-> TRUE],
     !.perkChoices = <<"pierce", "arrow_count", "ricochet">>,
     !.nextMilestone = 20,
     !.lastEnemySpawn = 39500,
     !.enemySpeed = 357,
     !.now = 39800,
     !.loop = [perkOpen |-> FALSE, stats |-> [playerSpeed |-> 78,
            projectileSpeed |-> 150, arrowCount |-> 1, pierce |-> FALSE,
            ricochet |-> TRUE]],
     !.nextId = 42]

\* Start at 37 s; frames at 37 s and 37.5 s, seven frames 10 ms apart, and
\* frames at 38.3 s, 39.5 s and 39.8 s, the player at rest aiming right.
\* The frames at 37 s and 38.3 s place an enemy by EnemyFallback(<<0, 0>>),
\* the frame at 39.5 s by EnemyFallback(<<528, 500>>).  The projectile of
\* 37.5 s has flown past that enemy, the one of 38.3 s overlaps it.
Expiring ==
  [Constructed EXCEPT
     !.running = TRUE,
     !.frames = [pending |-> 1, live |-> TRUE],
     !.enemies = <<[x |-> 10864, y |-> 2789, radius |-> 300, vx |-> 20, vy
            |-> 25, id |-> 1, spawnInvulUntil |-> 37300], [x |-> 10684, y
            |-> 2564, radius |-> 300, vx |-> 20, vy |-> 25, id |-> 4,
            spawnInvulUntil |-> 38600], [x |-> 16692, y |-> 9000, radius
            |-> 300, vx |-> -32, vy |-> 0, id |-> 6, spawnInvulUntil |->
            39800]>>,
     !.projectiles = <<[x |-> 17650, y |-> 9000, radius |-> 100, vx |->
            150, vy |-> 0, id |-> 3, createdAt |-> 37500, piercesLeft |->
            0, canRicochet |-> FALSE], [x |-> 16450, y |-> 9000, radius |->
            100, vx |-> 150, vy |-> 0, id |-> 5, createdAt |-> 38300,
            piercesLeft |-> 0, canRicochet |-> FALSE], [x |-> 16300, y |->
            9000, radius |-> 100, vx |-> 150, vy |-> 0, id |-> 7, createdAt
            |-> 39500, piercesLeft |-> 0, canRicochet |-> FALSE]>>,
     !.player = [x |-> 16000, y |-> 9000, radius |-> 350, vx |-> 0, vy |->
            0, aimX |-> 1000, aimY |-> 0, lastFireTime |-> 39500],
     !.lastVolley = 39500,
     !.lastEnemySpawn = 39500,
     !.now = 39800,
     !.nextId = 8]

\* Start at 38.3 s; frames at 38.3 s and 39 s, forty-three frames 10 ms
\* apart, and frames at 39.5 s and 39.8 s, the player at rest aiming right.
\* The frame at 38.3 s places an enemy by EnemyFallback(<<0, 0>>), the
\* frame at 39.5 s by EnemyFallback(<<528, 500>>).  The projectile of 39 s
\* is one step from the right wall of its row, the one of 39.5 s is about
\* to overlap the second enemy.
AtWall ==
  [Constructed EXCEPT
     !.running = TRUE,
     !.frames = [pending |-> 1, live |-> TRUE],
     !.enemies = <<[x |-> 11564, y |-> 3662, radius |-> 300, vx |-> 20, vy
            |-> 24, id |-> 1, spawnInvulUntil |-> 38600], [x |-> 16692, y
            |-> 9000, radius |-> 300, vx |-> -32, vy |-> 0, id |-> 4,
            spawnInvulUntil |-> 39800]>>,
     !.projectiles = <<[x |-> 22900, y |-> 9000, radius |-> 100, vx |->
            150, vy |-> 0, id |-> 3, createdAt |-> 39000, piercesLeft |->
            0, canRicochet |-> FALSE], [x |-> 16300, y |-> 9000, radius |->
            100, vx |-> 150, vy |-> 0, id |-> 5, createdAt |-> 39500,
            piercesLeft |-> 0, canRicochet |-> FALSE]>>,
     !.player = [x |-> 16000, y |-> 9000, radius |-> 350, vx |-> 0, vy |->
            0, aimX |-> 1000, aimY |-> 0, lastFireTime |-> 39500],
     !.lastVolley = 39500,
     !.lastEnemySpawn = 39500,
     !.now = 39800,
     !.nextId = 6]

\* the prompt of the second milestone, pierce owned since the first
SecondPrompt ==
  [Constructed EXCEPT
     !.kills = 20,
     !.obstacles = <<[x |-> 19772, y |-> 13123, width |-> 700, height |->
            1400]>>,
     !.projectiles = <<[x |-> 16900, y |-> 9000, radius |-> 100, vx |->
            150, vy |-> 0, id |-> 54, createdAt |-> 37400, piercesLeft |->
            1, canRicochet |-> FALSE], [x |-> 16750, y |-> 9000, radius |->
            100, vx |-> 150, vy |-> 0, id |-> 56, createdAt |-> 38100,
            piercesLeft |-> 1, canRicochet |-> FALSE], [x |-> 16450, y |->
            9000, radius |-> 100, vx |-> 150, vy |-> 0, id |-> 57,
            createdAt |-> 38600, piercesLeft |-> 1, canRicochet |-> FALSE],
            [x |-> 16300, y |-> 9000, radius |-> 100, vx |-> 150, vy |-> 0,
            id |-> 59, createdAt |-> 39300, piercesLeft |-> 1, canRicochet
            |-> FALSE]>>,
     !.player = [x |-> 16000, y |-> 9000, radius |-> 350, vx |-> 0, vy |->
            0, aimX |-> 1000, aimY |-> 0, lastFireTime |-> 39300],
     !.lastVolley = 39300,
     !.stats = [playerSpeed |-> 78, projectileSpeed |-> 150, arrowCount |->
            1, pierce |-> TRUE, ricochet |-> FALSE],
     !.perkOpen = TRUE,
     !.perkChoices = <<"pierce", "arrow_count", "ricochet">>,
     !.nextMilestone = 30,
     !.lastEnemySpawn = 39300,
     !.enemySpeed = 392,
     !.now = 39600,
     !.loop = [perkOpen |-> TRUE, stats |-> [playerSpeed |-> 78,
            projectileSpeed |-> 150, arrowCount |-> 1, pierce |-> TRUE,
            ricochet |-> FALSE]],
     !.nextId = 60]

\* an enemy has reached the player from the left; behind it in the
\* collection an enemy on the right is about to be hit
ContactFirst ==
  [Constructed EXCEPT
     !.running = TRUE,
     !.frames = [pending |-> 1, live |-> TRUE],
     !.enemies = <<[x |-> 15367, y |-> 9000, radius |-> 300, vx |-> 32, vy
            |-> 0, id |-> 1, spawnInvulUntil |-> 38600], [x |-> 16692, y
            |-> 9000, radius |-> 300, vx |-> -32, vy |-> 0, id |-> 3,
            spawnInvulUntil |-> 39800]>>,
     !.projectiles = <<[x |-> 16450, y |-> 9000, radius |-> 100, vx |->
            150, vy |-> 0, id |-> 2, createdAt |-> 38300, piercesLeft |->
            0, canRicochet |-> FALSE], [x |-> 16300, y |-> 9000, radius |->
            100, vx |-> 150, vy |-> 0, id |-> 4, createdAt |-> 39500,
            piercesLeft |-> 0, canRicochet |-> FALSE]>>,
     !.player = [x |-> 16000, y |-> 9000, radius |-> 350, vx |-> 0, vy |->
            0, aimX |-> 1000, aimY |-> 0, lastFireTime |-> 39500],
     !.lastVolley = 39500,
     !.lastEnemySpawn = 39500,
     !.now = 39800,
     !.nextId = 5]

\* two enemies, one behind the other, have come within reach of the first
\* projectile
OneShotTwoEnemies ==
  [Constructed EXCEPT
     !.running = TRUE,
     !.enemies = <<[x |-> 16714, y |-> 9000, radius |-> 300, vx |-> -32, vy
            |-> 0, id |-> 1, spawnInvulUntil |-> 38300], [x |-> 16746, y
            |-> 9000, radius |-> 300, vx |-> -32, vy |-> 0, id |-> 3,
            spawnInvulUntil |-> 39500]>>,
     !.projectiles = <<[x |-> 16450, y |-> 9000, radius |-> 100, vx |->
            150, vy |-> 0, id |-> 2, createdAt |-> 38000, piercesLeft |->
            0, canRicochet |-> FALSE], [x |-> 16300, y |-> 9000, radius |->
            100, vx |-> 150, vy |-> 0, id |-> 4, createdAt |-> 39200,
            piercesLeft |-> 0, canRicochet |-> FALSE], [x |-> 16150, y |->
            9000, radius |-> 100, vx |-> 150, vy |-> 0, id |-> 5, createdAt
            |-> 39800, piercesLeft |-> 0, canRicochet |-> FALSE]>>,
     !.player = [x |-> 16000, y |-> 9000, radius |-> 350, vx |-> 0, vy |->
            0, aimX |-> 1000, aimY |-> 0, lastFireTime |-> 39800],
     !.lastEnemySpawn = 39200,
     !.now = 39800,
     !.lastVolley = 39800,
     !.frames = [pending |-> 1, live |-> TRUE],
     !.nextId = 6]

Starts ==
  {Constructed, NineKills, Corner, BesideObstacle, TwoHits, Piercing,
   PromptIgnored, ShotDue, SpawnDue, DropNear, Rebound, Expiring, AtWall,
   SecondPrompt, ContactFirst, OneShotTwoEnemies}

Init == \E s \in Starts : StateIs(s)

KeyDown == \E key \in Keys : handleKeyDown(key)
KeyUp == \E key \in Keys : handleKeyUp(key)
MouseMove == \E m \in Pointers : handleMouseMove(m)
Reset == resetGame
Toggle == toggleRunning
ChoosePerk == \E id \in PerkIds : applyPerk(id)
Tick == \E timestamp \in Timestamps : timestamp <= MaxTime /\ Frame(timestamp)

Next == KeyDown \/ KeyUp \/ MouseMove \/ Reset \/ Toggle \/ ChoosePerk \/ Tick

Spec == Init /\ [][Next]_vars

-----------------------------------------------------------------------------
(* The player and the arena.                                               *)

InRow(x, y, radius) == Abs(x - cxArena) <= halfWAt(y) - radius
InRows(y, radius) == radius <= y /\ y <= canvasHeight - radius

\* C2: after every tick the player's circle intersects no obstacle
\* rectangle.  Between ticks only Reset moves the player, and it removes
\* every obstacle, so this is stated of every state.
C2_PlayerClearOfObstacles ==
  \A k \in 1..Len(obstacles) :
    ~circleRectCollides(player.x, player.y, player.radius, obstacles[k])

\* C1: after every tick the player's committed position is within the
\* trapezoid at its own row, |x - 640| <= halfWAt(y) - radius, and
\* radius <= y <= 720 - radius.  A tick is the only step that moves the
\* player other than Reset, which puts it at the centre, so the bound is
\* stated of every state.
C1_TrapezoidBound ==
  /\ InRow(player.x, player.y, player.radius)
  /\ InRows(player.y, player.radius)

-----------------------------------------------------------------------------
(* Spawn invulnerability and the end of the run.                           *)

\* a step of the model is a frame exactly when it moves the frame clock
IsTick == now' # now

Ids(seq) == {seq[j].id : j \in 1..Len(seq)}

Touching(enemy) ==
  DistLess(player.x - enemy.x, player.y - enemy.y,
           player.radius + enemy.radius)

\* C3: an enemy whose spawnInvulUntil is later than the frame's timestamp
\* is skipped by the combat pass: it is still there after the frame (no
\* projectile kills it), and a frame in which every enemy touching the
\* player is such an enemy does not end the run.  An enemy that a frame at
\* T adds has spawnInvulUntil = T + 300.
C3_SpawnInvulnerability ==
  [][IsTick =>
       /\ \A k \in 1..Len(enemies) :
            now' < enemies[k].spawnInvulUntil
              => enemies[k].id \in Ids(enemies')
       /\ (\A k \in 1..Len(enemies) :
             Touching(enemies[k]) => now' < enemies[k].spawnInvulUntil)
            => ~gameOver'
       /\ \A j \in 1..Len(enemies') :
            enemies'[j].id \notin Ids(enemies)
              => enemies'[j].spawnInvulUntil = now' + 300]_vars

\* A frame has run on an enemy that an earlier frame had spawned and that
\* was still invulnerable; where it stood when the frame began (one step
\* of its velocity back) it touched the resting player and overlapped a
\* projectile of the snapshot; it is still there and the run goes on.
C3_Witness ==
  /\ ~gameOver /\ running
  /\ player.vx = 0 /\ player.vy = 0
  /\ obstacles = <<>>
  /\ \E k \in 1..Len(enemies) :
       LET e == enemies[k]
           ex == e.x - e.vx
           ey == e.y - e.vy
       IN  /\ e.spawnInvulUntil - 300 < now
           /\ now < e.spawnInvulUntil
           /\ DistLess(player.x - ex, player.y - ey, player.radius + e.radius)
           /\ \E i \in 1..Len(projectiles) :
                LET q == projectiles[i]
                IN  /\ q.createdAt < now
                    /\ DistLess(q.x - q.vx - ex, q.y - q.vy - ey,
                                q.radius + e.radius)

Fatal(timestamp) ==
  \E k \in 1..Len(enemies) :
    timestamp >= enemies[k].spawnInvulUntil /\ Touching(enemies[k])

\* C4: gameOver becomes true only in a frame whose snapshot holds a
\* vulnerable enemy in contact with the player; every frame whose snapshot
\* holds one sets gameOver, clears running, and no frame runs while
\* gameOver is set.
C4_GameOverIffContact ==
  [][/\ (~gameOver /\ gameOver') => (IsTick /\ Fatal(now'))
     /\ (IsTick /\ Fatal(now')) => (gameOver' /\ ~running')
     /\ gameOver => ~IsTick]_vars

\* a frame has ended the run
C4_Witness == gameOver /\ ~running /\ ~perkOpen /\ Fatal(now)

\* C10: applyPerk closes the prompt; with gameOver false it sets running,
\* with gameOver true running stays false.
C10_ApplyPerk ==
  [][(\E id \in PerkIds : applyPerk(id)) =>
       /\ ~perkOpen'
       /\ (~gameOver => running')
       /\ (gameOver => ~running')]_vars

\* a perk has been applied after the run had ended: the prompt is closed
\* and the game is not running
C10_Witness ==
  /\ gameOver /\ ~perkOpen /\ ~running
  /\ kills >= 10 /\ stats # BaseStats

-----------------------------------------------------------------------------
(* The perk prompt and the milestone.                                      *)

\* C5: whenever a projectile with piercesLeft = 0 is the first of the
\* frame's snapshot to overlap a vulnerable enemy that the combat pass
\* comes to (the pass comes to every enemy of a frame that does not end
\* the run), that projectile is absent from the projectiles after the
\* frame.
C5_SpentProjectileRemoved ==
  [][(IsTick /\ ~gameOver') =>
       \A k \in 1..Len(enemies) :
         LET i == FirstHit(enemies[k], projectiles)
         IN  (/\ now' >= enemies[k].spawnInvulUntil
              /\ i # 0
              /\ projectiles[i].piercesLeft = 0)
               => projectiles[i].id \notin Ids(projectiles')]_vars

\* the projectile of `seq` with identity id
ById(seq, id) == seq[CHOOSE j \in 1..Len(seq) : seq[j].id = id]

\* C6: piercesLeft of every projectile is never negative; a projectile
\* starts with 1 or 0, and with 1 only if the pierce perk is owned; a step
\* changes the piercesLeft of a projectile only from a value > 0, to one
\* less.
C6_PiercesLeft ==
  /\ [](\A i \in 1..Len(projectiles) : projectiles[i].piercesLeft >= 0)
  /\ [][\A j \in 1..Len(projectiles') :
          LET q == projectiles'[j]
          IN  IF q.id \in Ids(projectiles)
              THEN LET old == ById(projectiles, q.id).piercesLeft
                   IN  \/ q.piercesLeft = old
                       \/ old > 0 /\ q.piercesLeft = old - 1
              ELSE /\ q.piercesLeft \in {0, 1}
                   /\ q.piercesLeft = 1 => stats.pierce]_vars

\* a projectile that was fired with the pierce perk has passed through an
\* enemy and keeps flying with no pierce left
C6_Witness ==
  /\ stats.pierce
  /\ kills = Piercing.kills + 1
  /\ \E i \in 1..Len(projectiles) :
       /\ projectiles[i].id \in Ids(Piercing.projectiles)
       /\ projectiles[i].piercesLeft = 0

PromptOpens == ~perkOpen /\ perkOpen'
PerkChosen == \E id \in PerkIds : applyPerk(id)

\* C7: the prompt opens only in a frame of a running game whose kills reach
\* the milestone; while the prompt is open the game is not running and no
\* frame executes; only applyPerk closes the prompt or sets running while
\* it is open.
C7_PerkPause ==
  /\ [](perkOpen => ~running)
  /\ [][/\ PromptOpens => (IsTick /\ running /\ kills' >= nextMilestone)
        /\ perkOpen => ~IsTick
        /\ (perkOpen /\ (~perkOpen' \/ running')) => PerkChosen]_vars

\* C8 as the specification states it: every opening of the prompt raises
\* nextMilestone by exactly 10, and no step lowers nextMilestone.
C8_NeverDecreases ==
  [][/\ PromptOpens => nextMilestone' = nextMilestone + 10
     /\ nextMilestone' >= nextMilestone]_vars

\* a reset: resetGame, or Start after the end of a run
ResetStep ==
  /\ ~IsTick
  /\ kills' = 0 /\ score' = 0 /\ ~gameOver' /\ ~perkOpen'
  /\ enemies' = <<>> /\ projectiles' = <<>> /\ obstacles' = <<>>
  /\ stats' = BaseStats

\* C8, amended: every opening of the prompt raises nextMilestone by exactly
\* 10 and nothing else raises it; within a run it never decreases; the only
\* step that lowers it is a reset, which sets it back to 10.
C8_MilestoneSteps ==
  [][/\ PromptOpens => nextMilestone' = nextMilestone + 10
     /\ nextMilestone' > nextMilestone => PromptOpens
     /\ nextMilestone' < nextMilestone => (ResetStep /\ nextMilestone' = 10)]_vars

\* a prompt has opened and raised the threshold
C8_Witness == perkOpen /\ nextMilestone = 20 /\ kills >= 10

-----------------------------------------------------------------------------
(* The draw loop of the milestone, one iteration a step.                   *)

Range(seq) == {seq[j] : j \in 1..Len(seq)}

\* if (!picks.find(p => p.id === c.id)) picks.push(c)
PushPick_NoFind(ps, c) == Append(ps, c)
PushPick(ps, c) == IF c \in Range(ps) THEN ps ELSE Append(ps, c)

\* the frame that draws runs 200 ms after the last one
DrawTime == now + 200

\* the frame at `timestamp` enters the milestone branch
AtMilestone(timestamp) ==
  /\ LoopActive
  /\ kills + Len(Combat(timestamp).killed) >= nextMilestone
  /\ ~loop.perkOpen

\* one iteration of while (picks.length < 3), drawing pool entry c
DrawPick(c) ==
  /\ AtMilestone(DrawTime)
  /\ Len(picks) < 3
  /\ picks' = PushPick(picks, c)
  /\ UNCHANGED <<running, gameOver, score, kills, slpCount, obstacles, drops,
                 enemies, projectiles, player, stats, perkOpen, perkChoices,
                 nextMilestone, lastEnemySpawn, enemySpeed, mousePos, now,
                 loop, keySpeed, projected, lastVolley, frames, held, snakeGame, nextId>>

Draw == \E c \in PerkIds : DrawPick(c)

\* an iteration whose draw is an entry not yet picked
DrawFresh == \E c \in PerkIds \ Range(picks) : DrawPick(c)

\* the loop is left, and the frame goes on with the picks and commits
FrameDrawn ==
  /\ AtMilestone(DrawTime)
  /\ Len(picks) >= 3
  /\ \E p \in IF /\ DrawTime - lastEnemySpawn >= enemySpawnRate
                 /\ Len(enemies) < MAX_ENEMIES
              THEN SpawnPoints ELSE {[x |-> 0, y |-> 0]} :
     \E rolls \in [1..Len(Combat(DrawTime).killed) -> RollRand] :
     \E newObstacles \in spawnObstacles :
       gameLoop(DrawTime, p, rolls, picks, newObstacles)

InitDraw == StateIs(NineKills)

NextDraw == Draw \/ FrameDrawn

\* Math.random() is fair: an entry not yet picked is drawn eventually; the
\* frame is sequential code and runs on once the loop is left
SpecDraw ==
  /\ InitDraw
  /\ [][NextDraw]_vars
  /\ WF_vars(DrawFresh)
  /\ WF_vars(FrameDrawn)

Distinct(seq) == \A a, b \in 1..Len(seq) : a # b => seq[a] # seq[b]

\* C9: every prompt offers exactly 3 choices, pairwise distinct, all of the
\* 5-entry catalog; the draw loop is left only with such picks, and under
\* fair random choice it is left: the prompt opens.
C9_ThreeDistinctChoices ==
  /\ [](perkOpen => /\ Len(perkChoices) = 3
                    /\ Distinct(perkChoices)
                    /\ Range(perkChoices) \subseteq
                         {"arrow_speed", "player_speed", "arrow_count",
                          "pierce", "ricochet"})
  /\ [](Len(picks) >= 3 => picks \in DrawResults)
  /\ <>perkOpen

\* the loop has run and the prompt offers what it drew
C9_Witness == perkOpen /\ Len(picks) = 3 /\ perkChoices = picks

-----------------------------------------------------------------------------
(* The end of a run and what follows it.                                   *)

\* C11 as the specification states it: the run leaves GameOver only to
\* Idle: running = false, gameOver = false, counters cleared.
C11_GameOverToIdleOnly ==
  [][(gameOver /\ ~gameOver') =>
       (~running' /\ kills' = 0 /\ score' = 0)]_vars

\* C11, amended: while gameOver is set the game is not running; the run
\* leaves GameOver only by a reset, which clears the counters and the
\* collections: Reset leads to Idle (running = false), and Start resets
\* and leads directly to Running (running = true).
C11_LeavingGameOver ==
  /\ [](gameOver => ~running)
  /\ [][(gameOver /\ ~gameOver') =>
          /\ ResetStep
          /\ nextMilestone' = 10
          /\ \/ resetGame /\ ~running'
             \/ toggleRunning /\ running']_vars

\* a run that had been played (the frame clock has advanced) has been
\* reset and is running again from the start
C11_Witness ==
  /\ running /\ ~gameOver
  /\ now > 0
  /\ kills = 0 /\ score = 0 /\ enemies = <<>> /\ projectiles = <<>>
  /\ lastEnemySpawn = 0 /\ player = StartPlayer

-----------------------------------------------------------------------------
(* Firing and spawning.                                                    *)

\* the projectiles of `seq` created at time t
CreatedAt(seq, t) == {j \in 1..Len(seq) : seq[j].createdAt = t}

\* the velocities u and v mirror each other in the aim direction (ax, ay),
\* up to the rounding of the last digit
Mirrored(u, v, ax, ay) ==
  /\ Abs((u.vx * ax + u.vy * ay) - (v.vx * ax + v.vy * ay)) <= 2 * AimOne
  /\ Abs((u.vx * ay - u.vy * ax) + (v.vx * ay - v.vy * ax)) <= 2 * AimOne

\* C12: a frame with the player at rest and timestamp - lastFireTime >= 500
\* fires exactly one volley: after it there are exactly stats.arrowCount
\* projectiles with createdAt = timestamp, fanned symmetrically about the
\* aim, each with piercesLeft = (stats.pierce ? 1 : 0) and canRicochet =
\* stats.ricochet, and lastFireTime = timestamp.
C12_VolleyFires ==
  [][(/\ IsTick
      /\ player.vx = 0 /\ player.vy = 0
      /\ now' - player.lastFireTime >= 500) =>
       LET V == CreatedAt(projectiles', now')
       IN  /\ Cardinality(V) = stats.arrowCount
           /\ player'.lastFireTime = now'
           /\ \A j \in V :
                /\ projectiles'[j].piercesLeft = (IF stats.pierce THEN 1 ELSE 0)
                /\ projectiles'[j].canRicochet = stats.ricochet
                /\ \E m \in V :
                     Mirrored(projectiles'[j], projectiles'[m],
                              player.aimX, player.aimY)]_vars

\* C13: a frame with timestamp - lastEnemySpawn >= 1200 and fewer than 35
\* enemies spawns exactly one enemy: after it the enemies hold exactly one
\* that was not there before, with spawnInvulUntil = timestamp + 300, and
\* lastEnemySpawn = timestamp.
C13_EnemySpawns ==
  [][(/\ IsTick
      /\ now' - lastEnemySpawn >= 1200
      /\ Len(enemies) < 35) =>
       LET N == {j \in 1..Len(enemies') : enemies'[j].id \notin Ids(enemies)}
       IN  /\ Cardinality(N) = 1
           /\ \A j \in N : enemies'[j].spawnInvulUntil = now' + 300
           /\ lastEnemySpawn' = now']_vars

-----------------------------------------------------------------------------
(* The enemy cap.  Spawns are 1200 ms apart, so a run holds 35 enemies     *)
(* only after 42 s: the runs below last until CapTime.                     *)

\* the last frame of the runs at the cap
CapTime == 43200

\* Start at 1.2 s; thirty-five frames 1200 ms apart and one at 43 s, the
\* player at rest aiming right; every enemy at the first position the
\* placement loop accepts.  No shot hits, no enemy reaches the player.
AtCap ==
  [Constructed EXCEPT
     !.running = TRUE,
     !.frames = [pending |-> 1, live |-> TRUE],
     !.enemies = <<[x |-> 11344, y |-> 3389, radius |-> 300, vx |-> 20, vy
            |-> 25, id |-> 1, spawnInvulUntil |-> 1500], [x |-> 11324, y
            |-> 3364, radius |-> 300, vx |-> 20, vy |-> 25, id |-> 3,
            spawnInvulUntil |-> 2700], [x |-> 11304, y |-> 3339, radius |->
            300, vx |-> 20, vy |-> 25, id |-> 5, spawnInvulUntil |-> 3900],
            [x |-> 11284, y |-> 3314, radius |-> 300, vx |-> 20, vy |-> 25,
            id |-> 7, spawnInvulUntil |-> 5100], [x |-> 11264, y |-> 3289,
            radius |-> 300, vx |-> 20, vy |-> 25, id |-> 9, spawnInvulUntil
            |-> 6300], [x |-> 11244, y |-> 3264, radius |-> 300, vx |-> 20,
            vy |-> 25, id |-> 11, spawnInvulUntil |-> 7500], [x |-> 11224,
            y |-> 3239, radius |-> 300, vx |-> 20, vy |-> 25, id |-> 13,
            spawnInvulUntil |-> 8700], [x |-> 11204, y |-> 3214, radius |->
            300, vx |-> 20, vy |-> 25, id |-> 15, spawnInvulUntil |->
            9900], [x |-> 11184, y |-> 3189, radius |-> 300, vx |-> 20, vy
            |-> 25, id |-> 17, spawnInvulUntil |-> 11100], [x |-> 11164, y
            |-> 3164, radius |-> 300, vx |-> 20, vy |-> 25, id |-> 19,
            spawnInvulUntil |-> 12300], [x |-> 11144, y |-> 3139, radius
            |-> 300, vx |-> 20, vy |-> 25, id |-> 21, spawnInvulUntil |->
            13500], [x |-> 11124, y |-> 3114, radius |-> 300, vx |-> 20, vy
            |-> 25, id |-> 23, spawnInvulUntil |-> 14700], [x |-> 11104, y
            |-> 3089, radius |-> 300, vx |-> 20, vy |-> 25, id |-> 25,
            spawnInvulUntil |-> 15900], [x |-> 11084, y |-> 3064, radius
            |-> 300, vx |-> 20, vy |-> 25, id |-> 27, spawnInvulUntil |->
            17100], [x |-> 11064, y |-> 3039, radius |-> 300, vx |-> 20, vy
            |-> 25, id |-> 29, spawnInvulUntil |-> 18300], [x |-> 11044, y
            |-> 3014, radius |-> 300, vx |-> 20, vy |-> 25, id |-> 31,
            spawnInvulUntil |-> 19500], [x |-> 11024, y |-> 2989, radius
            |-> 300, vx |-> 20, vy |-> 25, id |-> 33, spawnInvulUntil |->
            20700], [x |-> 11004, y |-> 2964, radius |-> 300, vx |-> 20, vy
            |-> 25, id |-> 35, spawnInvulUntil |-> 21900], [x |-> 10984, y
            |-> 2939, radius |-> 300, vx |-> 20, vy |-> 25, id |-> 37,
            spawnInvulUntil |-> 23100], [x |-> 10964, y |-> 2914, radius
            |-> 300, vx |-> 20, vy |-> 25, id |-> 39, spawnInvulUntil |->
            24300], [x |-> 10944, y |-> 2889, radius |-> 300, vx |-> 20, vy
            |-> 25, id |-> 41, spawnInvulUntil |-> 25500], [x |-> 10924, y
            |-> 2864, radius |-> 300, vx |-> 20, vy |-> 25, id |-> 43,
            spawnInvulUntil |-> 26700], [x |-> 10904, y |-> 2839, radius
            |-> 300, vx |-> 20, vy |-> 25, id |-> 45, spawnInvulUntil |->
            27900], [x |-> 10884, y |-> 2814, radius |-> 300, vx |-> 20, vy
            |-> 25, id |-> 47, spawnInvulUntil |-> 29100], [x |-> 10864, y
            |-> 2789, radius |-> 300, vx |-> 20, vy |-> 25, id |-> 49,
            spawnInvulUntil |-> 30300], [x |-> 10844, y |-> 2764, radius
            |-> 300, vx |-> 20, vy |-> 25, id |-> 51, spawnInvulUntil |->
            31500], [x |-> 10824, y |-> 2739, radius |-> 300, vx |-> 20, vy
            |-> 25, id |-> 53, spawnInvulUntil |-> 32700], [x |-> 10804, y
            |-> 2714, radius |-> 300, vx |-> 20, vy |-> 25, id |-> 55,
            spawnInvulUntil |-> 33900], [x |-> 10784, y |-> 2689, radius
            |-> 300, vx |-> 20, vy |-> 25, id |-> 57, spawnInvulUntil |->
            35100], [x |-> 10764, y |-> 2664, radius |-> 300, vx |-> 20, vy
            |-> 25, id |-> 59, spawnInvulUntil |-> 36300], [x |-> 10744, y
            |-> 2639, radius |-> 300, vx |-> 20, vy |-> 25, id |-> 61,
            spawnInvulUntil |-> 37500], [x |-> 10724, y |-> 2614, radius
            |-> 300, vx |-> 20, vy |-> 25, id |-> 63, spawnInvulUntil |->
            38700], [x |-> 10704, y |-> 2589, radius |-> 300, vx |-> 20, vy
            |-> 25, id |-> 65, spawnInvulUntil |-> 39900], [x |-> 10684, y
            |-> 2564, radius |-> 300, vx |-> 20, vy |-> 25, id |-> 67,
            spawnInvulUntil |-> 41100], [x |-> 10664, y |-> 2539, radius
            |-> 300, vx |-> 20, vy |-> 25, id |-> 69, spawnInvulUntil |->
            42300]>>,
     !.projectiles = <<[x |-> 16450, y |-> 9000, radius |-> 100, vx |->
            150, vy |-> 0, id |-> 68, createdAt |-> 40800, piercesLeft |->
            0, canRicochet |-> FALSE], [x |-> 16300, y |-> 9000, radius |->
            100, vx |-> 150, vy |-> 0, id |-> 70, createdAt |-> 42000,
            piercesLeft |-> 0, canRicochet |-> FALSE], [x |-> 16150, y |->
            9000, radius |-> 100, vx |-> 150, vy |-> 0, id |-> 71,
            createdAt |-> 43000, piercesLeft |-> 0, canRicochet |->
            FALSE]>>,
     !.player = [x |-> 16000, y |-> 9000, radius |-> 350, vx |-> 0, vy |->
            0, aimX |-> 1000, aimY |-> 0, lastFireTime |-> 43000],
     !.lastVolley = 43000,
     !.lastEnemySpawn = 42000,
     !.now = 43000,
     !.nextId = 72]

\* The same run begun at 2.4 s: thirty-four frames 1200 ms apart and one at
\* 43 s.  The thirty-fifth enemy is due at 43.2 s.
BelowCap ==
  [Constructed EXCEPT
     !.running = TRUE,
     !.frames = [pending |-> 1, live |-> TRUE],
     !.enemies = <<[x |-> 11324, y |-> 3364, radius |-> 300, vx |-> 20, vy
            |-> 25, id |-> 1, spawnInvulUntil |-> 2700], [x |-> 11304, y
            |-> 3339, radius |-> 300, vx |-> 20, vy |-> 25, id |-> 3,
            spawnInvulUntil |-> 3900], [x |-> 11284, y |-> 3314, radius |->
            300, vx |-> 20, vy |-> 25, id |-> 5, spawnInvulUntil |-> 5100],
            [x |-> 11264, y |-> 3289, radius |-> 300, vx |-> 20, vy |-> 25,
            id |-> 7, spawnInvulUntil |-> 6300], [x |-> 11244, y |-> 3264,
            radius |-> 300, vx |-> 20, vy |-> 25, id |-> 9, spawnInvulUntil
            |-> 7500], [x |-> 11224, y |-> 3239, radius |-> 300, vx |-> 20,
            vy |-> 25, id |-> 11, spawnInvulUntil |-> 8700], [x |-> 11204,
            y |-> 3214, radius |-> 300, vx |-> 20, vy |-> 25, id |-> 13,
            spawnInvulUntil |-> 9900], [x |-> 11184, y |-> 3189, radius |->
            300, vx |-> 20, vy |-> 25, id |-> 15, spawnInvulUntil |->
            11100], [x |-> 11164, y |-> 3164, radius |-> 300, vx |-> 20, vy
            |-> 25, id |-> 17, spawnInvulUntil |-> 12300], [x |-> 11144, y
            |-> 3139, radius |-> 300, vx |-> 20, vy |-> 25, id |-> 19,
            spawnInvulUntil |-> 13500], [x |-> 11124, y |-> 3114, radius
            |-> 300, vx |-> 20, vy |-> 25, id |-> 21, spawnInvulUntil |->
            14700], [x |-> 11104, y |-> 3089, radius |-> 300, vx |-> 20, vy
            |-> 25, id |-> 23, spawnInvulUntil |-> 15900], [x |-> 11084, y
            |-> 3064, radius |-> 300, vx |-> 20, vy |-> 25, id |-> 25,
            spawnInvulUntil |-> 17100], [x |-> 11064, y |-> 3039, radius
            |-> 300, vx |-> 20, vy |-> 25, id |-> 27, spawnInvulUntil |->
            18300], [x |-> 11044, y |-> 3014, radius |-> 300, vx |-> 20, vy
            |-> 25, id |-> 29, spawnInvulUntil |-> 19500], [x |-> 11024, y
            |-> 2989, radius |-> 300, vx |-> 20, vy |-> 25, id |-> 31,
            spawnInvulUntil |-> 20700], [x |-> 11004, y |-> 2964, radius
            |-> 300, vx |-> 20, vy |-> 25, id |-> 33, spawnInvulUntil |->
            21900], [x |-> 10984, y |-> 2939, radius |-> 300, vx |-> 20, vy
            |-> 25, id |-> 35, spawnInvulUntil |-> 23100], [x |-> 10964, y
            |-> 2914, radius |-> 300, vx |-> 20, vy |-> 25, id |-> 37,
            spawnInvulUntil |-> 24300], [x |-> 10944, y |-> 2889, radius
            |-> 300, vx |-> 20, vy |-> 25, id |-> 39, spawnInvulUntil |->
            25500], [x |-> 10924, y |-> 2864, radius |-> 300, vx |-> 20, vy
            |-> 25, id |-> 41, spawnInvulUntil |-> 26700], [x |-> 10904, y
            |-> 2839, radius |-> 300, vx |-> 20, vy |-> 25, id |-> 43,
            spawnInvulUntil |-> 27900], [x |-> 10884, y |-> 2814, radius
            |-> 300, vx |-> 20, vy |-> 25, id |-> 45, spawnInvulUntil |->
            29100], [x |-> 10864, y |-> 2789, radius |-> 300, vx |-> 20, vy
            |-> 25, id |-> 47, spawnInvulUntil |-> 30300], [x |-> 10844, y
            |-> 2764, radius |-> 300, vx |-> 20, vy |-> 25, id |-> 49,
            spawnInvulUntil |-> 31500], [x |-> 10824, y |-> 2739, radius
            |-> 300, vx |-> 20, vy |-> 25, id |-> 51, spawnInvulUntil |->
            32700], [x |-> 10804, y |-> 2714, radius |-> 300, vx |-> 20, vy
            |-> 25, id |-> 53, spawnInvulUntil |-> 33900], [x |-> 10784, y
            |-> 2689, radius |-> 300, vx |-> 20, vy |-> 25, id |-> 55,
            spawnInvulUntil |-> 35100], [x |-> 10764, y |-> 2664, radius
            |-> 300, vx |-> 20, vy |-> 25, id |-> 57, spawnInvulUntil |->
            36300], [x |-> 10744, y |-> 2639, radius |-> 300, vx |-> 20, vy
            |-> 25, id |-> 59, spawnInvulUntil |-> 37500], [x |-> 10724, y
            |-> 2614, radius |-> 300, vx |-> 20, vy |-> 25, id |-> 61,
            spawnInvulUntil |-> 38700], [x |-> 10704, y |-> 2589, radius
            |-> 300, vx |-> 20, vy |-> 25, id |-> 63, spawnInvulUntil |->
            39900], [x |-> 10684, y |-> 2564, radius |-> 300, vx |-> 20, vy
            |-> 25, id |-> 65, spawnInvulUntil |-> 41100], [x |-> 10664, y
            |-> 2539, radius |-> 300, vx |-> 20, vy |-> 25, id |-> 67,
            spawnInvulUntil |-> 42300]>>,
     !.projectiles = <<[x |-> 16450, y |-> 9000, radius |-> 100, vx |->
            150, vy |-> 0, id |-> 66, createdAt |-> 40800, piercesLeft |->
            0, canRicochet |-> FALSE], [x |-> 16300, y |-> 9000, radius |->
            100, vx |-> 150, vy |-> 0, id |-> 68, createdAt |-> 42000,
            piercesLeft |-> 0, canRicochet |-> FALSE], [x |-> 16150, y |->
            9000, radius |-> 100, vx |-> 150, vy |-> 0, id |-> 69,
            createdAt |-> 43000, piercesLeft |-> 0, canRicochet |->
            FALSE]>>,
     !.player = [x |-> 16000, y |-> 9000, radius |-> 350, vx |-> 0, vy |->
            0, aimX |-> 1000, aimY |-> 0, lastFireTime |-> 43000],
     !.lastVolley = 43000,
     !.lastEnemySpawn = 42000,
     !.now = 43000,
     !.nextId = 70]

InitCap == StateIs(AtCap) \/ StateIs(BelowCap)

TickCap == \E timestamp \in Timestamps : timestamp <= CapTime /\ Frame(timestamp)

\* no prompt opens within these runs: applyPerk is not offered
NextCap == KeyDown \/ KeyUp \/ MouseMove \/ Reset \/ Toggle \/ TickCap

SpecCap == InitCap /\ [][NextCap]_vars

\* C14: the enemies never number more than 35; a frame whose spawn is due
\* while they number 35 adds no enemy to them (it moves them, and combat may
\* remove some) and sets lastEnemySpawn to its timestamp.
C14_EnemyCap ==
  /\ [](Len(enemies) <= 35)
  /\ [][(/\ IsTick
         /\ now' - lastEnemySpawn >= 1200
         /\ Len(enemies) = 35) =>
          /\ Ids(enemies') \subseteq Ids(enemies)
          /\ kills' = kills => Len(enemies') = 35
          /\ lastEnemySpawn' = now']_vars

\* a spawn attempt was just made at the cap: no enemy is of this frame
C14_Witness ==
  /\ Len(enemies) = 35
  /\ lastEnemySpawn = now
  /\ \A j \in 1..Len(enemies) : enemies[j].spawnInvulUntil # now + 300

-----------------------------------------------------------------------------
(* Drops and the currency counter.                                         *)

\* the drop is within player.radius + drop.radius of the player
InReach(drop) ==
  (player.x - drop.x) * (player.x - drop.x)
    + (player.y - drop.y) * (player.y - drop.y)
  < (player.radius + drop.radius) * (player.radius + drop.radius)
OutOfReach(drop) == ~InReach(drop)

\* the positions of the enemies a frame removes
Fallen == {[x |-> enemies[j].x, y |-> enemies[j].y] :
             j \in {k \in 1..Len(enemies) : enemies[k].id \notin Ids(enemies')}}

\* C15: a frame adds to slpCount one for each drop within
\* player.radius + drop.radius of the player and removes exactly those
\* drops: the drops after it are the ones out of reach, in their order,
\* followed by the drops of the kills of this frame, which lie where an
\* enemy fell and are out of reach too.
C15_DropPickup ==
  [][IsTick =>
       LET far == SelectSeq(drops, OutOfReach)
       IN  /\ slpCount' = slpCount + (Len(drops) - Len(far))
           /\ Len(drops') >= Len(far)
           /\ SubSeq(drops', 1, Len(far)) = far
           /\ \A j \in Len(far) + 1..Len(drops') :
                /\ OutOfReach(drops'[j])
                /\ [x |-> drops'[j].x, y |-> drops'[j].y] \in Fallen]_vars

\* a drop was picked up by the last frame of DropNear's run
C15_Witness ==
  /\ slpCount = 1 /\ drops = <<>> /\ kills = 1
  /\ player.x > 16078

\* C19: slpCount never decreases and outlives a reset: a step that is not
\* a frame (resetGame, toggleRunning, applyPerk, a key or pointer event)
\* leaves it as it is, and a frame adds to it the number of drops within
\* reach of the player, the drops it collects.
C19_CurrencyKept ==
  [][/\ slpCount' >= slpCount
     /\ ~IsTick => slpCount' = slpCount
     /\ IsTick =>
          slpCount' - slpCount
            = Cardinality({j \in 1..Len(drops) : InReach(drops[j])})]_vars

\* a drop was collected, and the game was reset afterwards
C19_Witness ==
  /\ slpCount > 0
  /\ ~running /\ ~gameOver /\ kills = 0 /\ now > 0
  /\ player = StartPlayer /\ lastEnemySpawn = 0

-----------------------------------------------------------------------------
(* Projectiles at the walls, at obstacles and at the end of their life.    *)

\* no enemy overlaps the projectile: the combat pass has no hit to remove
\* it for
Untouched(p) ==
  \A k \in 1..Len(enemies) :
    ~DistLess(p.x - enemies[k].x, p.y - enemies[k].y,
              p.radius + enemies[k].radius)

\* C16: a frame keeps every projectile with canRicochet that is younger
\* than its lifetime and overlaps no enemy; if its next position is beyond a
\* side wall of its row its vx is negated, if beyond the top or bottom edge
\* its vy, and if the next position is inside the arena and hits an obstacle
\* the component on the axis circleRectCollisionAxis reports.
C16_RicochetStays ==
  [][IsTick =>
       \A j \in 1..Len(projectiles) :
         LET p == projectiles[j]
             nx == p.x + p.vx
             ny == p.y + p.vy
             side == ~InRow(nx, ny, p.radius)
             edge == ~InRows(ny, p.radius)
             k == FirstObstacle(nx, ny, p.radius)
             axis == IF k = 0 THEN "none"
                     ELSE circleRectCollisionAxis(nx, ny, p.radius, obstacles[k])
         IN  (p.canRicochet /\ now' - p.createdAt < 2500 /\ Untouched(p)) =>
               /\ p.id \in Ids(projectiles')
               /\ LET q == ById(projectiles', p.id)
                  IN  /\ (side /\ k = 0) => q.vx = -p.vx
                      /\ (edge /\ k = 0) => q.vy = -p.vy
                      /\ (~side /\ ~edge /\ axis = "x") => q.vx = -p.vx
                      /\ (~side /\ ~edge /\ axis = "y") => q.vy = -p.vy]_vars

\* C17: after a frame with timestamp t no projectile has
\* t - createdAt >= 2500.
C17_LifetimeExpires ==
  [][IsTick =>
       \A j \in 1..Len(projectiles') : now' - projectiles'[j].createdAt < 2500]_vars

\* C18: a projectile without canRicochet whose next position is beyond a
\* side wall of its row, beyond the top or bottom edge, or inside an
\* obstacle is not among the projectiles after the frame.
C18_LeavesArena ==
  [][IsTick =>
       \A j \in 1..Len(projectiles) :
         LET p == projectiles[j]
             nx == p.x + p.vx
             ny == p.y + p.vy
         IN  (/\ ~p.canRicochet
              /\ \/ ~InRow(nx, ny, p.radius)
                 \/ ~InRows(ny, p.radius)
                 \/ FirstObstacle(nx, ny, p.radius) # 0)
               => p.id \notin Ids(projectiles')]_vars

-----------------------------------------------------------------------------
(* The stats.                                                              *)

\* no field of t is worse than in s
NotWorse(s, t) ==
  /\ t.playerSpeed >= s.playerSpeed
  /\ t.projectileSpeed >= s.projectileSpeed
  /\ t.arrowCount >= s.arrowCount
  /\ s.pierce => t.pierce
  /\ s.ricochet => t.ricochet

\* C20 as the specification states it: no step makes a field of the stats
\* worse, and only applyPerk changes the stats.
C20_OnlyImprove ==
  [][/\ NotWorse(stats, stats')
     /\ stats' # stats => PerkChosen]_vars

\* C20, amended: the stats are never worse than the base stats; a step
\* that is not a reset makes no field worse and changes the stats only if
\* it is applyPerk; a reset (resetGame, or Start after the end of a run)
\* sets them back to the base stats.
C20_ImproveWithinRun ==
  /\ [](NotWorse(BaseStats, stats))
  /\ [][\/ ResetStep /\ stats' = BaseStats
        \/ /\ NotWorse(stats, stats')
           /\ stats' # stats => PerkChosen]_vars

\* the perk arrow_count has been applied in this run
C20_Witness ==
  /\ stats.arrowCount = 2
  /\ ~perkOpen /\ running /\ kills >= 10

-----------------------------------------------------------------------------
(* Placement of obstacles and enemies.                                     *)

\* C21: every frame that opens the prompt adds one or two obstacles, so a
\* placement whose twenty attempts all fail still places its obstacle.
C21_ObstaclesAdded ==
  [][PromptOpens => Len(obstacles') - Len(obstacles) \in {1, 2}]_vars

\* Start at 27.5 s with "a" held for seven frames 10 ms apart, the first of
\* which places an enemy by EnemyFallback(<<0, 0>>); the key is released
\* with the player 21.8 units left of the centre.  Then ten rounds 1200 ms
\* apart from 28.7 s: a frame that fires and places an enemy by
\* EnemyFallback(<<508, 500>>), one 300 ms later, and one 200 ms later that
\* kills the enemy; the tenth round stops after its second frame.
Aside ==
  [Constructed EXCEPT
     !.running = TRUE,
     !.frames = [pending |-> 1, live |-> TRUE],
     !.kills = 9,
     !.enemies = <<[x |-> 11141, y |-> 3184, radius |-> 300, vx |-> 19, vy
            |-> 26, id |-> 1, spawnInvulUntil |-> 27800], [x |-> 16152, y
            |-> 9000, radius |-> 300, vx |-> -32, vy |-> 0, id |-> 29,
            spawnInvulUntil |-> 39800]>>,
     !.projectiles = <<[x |-> 15754, y |-> 9000, radius |-> 100, vx |->
            150, vy |-> 0, id |-> 30, createdAt |-> 39500, piercesLeft |->
            0, canRicochet |-> FALSE]>>,
     !.player = [x |-> 15454, y |-> 9000, radius |-> 350, vx |-> 0, vy |->
            0, aimX |-> 1000, aimY |-> 0, lastFireTime |-> 39500],
     !.lastVolley = 39500,
     !.lastEnemySpawn = 39500,
     !.now = 39800,
     !.nextId = 31]

InitPlace == StateIs(Aside)

SpecPlace == InitPlace /\ [][Next]_vars

\* the rectangles of two obstacles do not overlap
Apart(a, b) ==
  \/ 2 * Abs(a.x - b.x) >= a.width + b.width
  \/ 2 * Abs(a.y - b.y) >= a.height + b.height

Spawned(j) == enemies'[j].id \notin Ids(enemies)

\* the enemy as spawnEnemy creates it at p, after the enemy updater of the
\* same frame
CreatedAtPoint(p, id) ==
  MoveEnemy([x |-> p.x, y |-> p.y, vx |-> 0, vy |-> 0, radius |-> Fx(12),
             spawnInvulUntil |-> now' + 300, id |-> id])

\* inside the arena, more than 160 units from the player, on no obstacle
ValidPlace(p) ==
  /\ InRow(p.x, p.y, Fx(12)) /\ InRows(p.y, Fx(12))
  /\ (player.x - p.x) * (player.x - p.x) + (player.y - p.y) * (player.y - p.y)
       > Fx(160) * Fx(160)
  /\ \A k \in 1..Len(obstacles) : ~circleRectCollides(p.x, p.y, Fx(12), obstacles[k])

\* C23 as the specification states it: every enemy a frame adds was created
\* at a valid place.
C23_ValidPlacement ==
  [][\A j \in 1..Len(enemies') :
       Spawned(j) =>
         \E p \in SpawnPoints :
           /\ enemies'[j] = CreatedAtPoint(p, enemies'[j].id)
           /\ ValidPlace(p)]_vars

\* C23, amended: every enemy a frame adds was created at a valid place, or,
\* when a sample of the placement loop can be rejected, at a fallback
\* point, which is not checked.
C23_ValidOrFallback ==
  [][\A j \in 1..Len(enemies') :
       Spawned(j) =>
         \E p \in SpawnPoints :
           /\ enemies'[j] = CreatedAtPoint(p, enemies'[j].id)
           /\ \/ ValidPlace(p)
              \/ /\ p \in {EnemyFallback(r) : r \in FallbackRand}
                 /\ \E r \in SpawnRand : ~ValidPlace(EnemySample(r))]_vars

\* an enemy of this frame is nearer than 100 units to the player: it was
\* placed by the fallback
C23_Witness ==
  \E j \in 1..Len(enemies) :
    /\ enemies[j].spawnInvulUntil = now + 300
    /\ DistLess(player.x - enemies[j].x, player.y - enemies[j].y, Fx(100))

-----------------------------------------------------------------------------
(* Input handlers between frames.                                          *)

\* a key or pointer event
InputStep == KeyDown \/ KeyUp \/ MouseMove

\* C24: a key or pointer event changes of the program's state only the
\* player's vx, vy, aimX and aimY and the stored pointer position; and a
\* frame, whose player updater works on the latest player, keeps the
\* velocity and the aim the handlers have set.
C24_HandlersAndFrames ==
  [][/\ InputStep =>
          /\ player'.x = player.x /\ player'.y = player.y
          /\ player'.lastFireTime = player.lastFireTime
          /\ player'.radius = player.radius
          /\ UNCHANGED <<enemies, projectiles, drops, obstacles, kills,
                         stats, slpCount, score, running, gameOver, perkOpen,
                         perkChoices, nextMilestone, lastEnemySpawn,
                         enemySpeed, now>>
     /\ IsTick =>
          /\ player'.vx = player.vx /\ player'.vy = player.vy
          /\ player'.aimX = player.aimX /\ player'.aimY = player.aimY]_vars

\* "s" was pressed at the start position and a frame has moved the player
\* down by one step, the key still held
C24_Witness ==
  /\ running /\ player.vy = 78 /\ player.y = 9078 /\ player.x = 16000

-----------------------------------------------------------------------------
(* The projection, called on one point in two rows.                        *)

\* the rows are the multiples of canvasHeight / ProjRows
ProjRows == 12
Rows == {(canvasHeight * k) \div ProjRows : k \in 0..ProjRows}
Columns == {0, cxArena, canvasWidth}

InitProject ==
  \E x \in Columns : \E y1, y2 \in Rows :
    /\ y1 <= y2
    /\ StateIs([Constructed EXCEPT
                  !.projected = [NoProjection EXCEPT
                                   !.x = x, !.y1 = y1, !.y2 = y2]])

\* project(x, y1) and project(x, y2)
Project ==
  /\ ~projected.done
  /\ projected' = [projected EXCEPT
                     !.scale1 = project(projected.x, projected.y1).scale,
                     !.scale2 = project(projected.x, projected.y2).scale,
                     !.done = TRUE]
  /\ UNCHANGED <<running, gameOver, score, kills, slpCount, obstacles, drops,
                 enemies, projectiles, player, stats, perkOpen, perkChoices,
                 nextMilestone, lastEnemySpawn, enemySpeed, mousePos, now,
                 loop, keySpeed, picks, lastVolley, frames, held, snakeGame, nextId>>

NextProject == Project

SpecProject == InitProject /\ [][NextProject]_vars

\* C25: for rows y1 <= y2 of [0, 720] and any x, the scale of
\* project(x, y1) is at most the scale of project(x, y2), and the scale of
\* project(x, 720) is 1.
C25_ScaleMonotone ==
  [](projected.done =>
       /\ projected.scale1 <= projected.scale2
       /\ projected.y2 = canvasHeight => projected.scale2 = 10000)

\* a row above the bottom row has been projected with the smaller scale
C25_Witness ==
  /\ projected.done
  /\ projected.y1 < projected.y2 /\ projected.y2 = canvasHeight
  /\ projected.scale1 < projected.scale2


(* The perks, one field each. *)

\* C26: applyPerk(id) changes the one field of stats that belongs to id:
\* arrow_speed multiplies projectileSpeed by 1.1, player_speed multiplies
\* playerSpeed by 1.25, arrow_count adds 1 to arrowCount, pierce and
\* ricochet set their flag, so a second pierce or ricochet changes nothing;
\* an id that is no perk leaves stats alone; and a shot fired with pierce
\* owned carries exactly one pierce charge.
C26_OneFieldPerPerk ==
  /\ [][\A id \in PerkIds : applyPerk(id) =>
          /\ id = "arrow_speed" =>
               stats' = [stats EXCEPT !.projectileSpeed =
                                        TDiv(stats.projectileSpeed * 11, 10)]
          /\ id = "player_speed" =>
               stats' = [stats EXCEPT !.playerSpeed =
                                        TDiv(stats.playerSpeed * 5, 4)]
          /\ id = "arrow_count" =>
               stats' = [stats EXCEPT !.arrowCount = stats.arrowCount + 1]
          /\ id = "pierce" => stats' = [stats EXCEPT !.pierce = TRUE]
          /\ id = "ricochet" => stats' = [stats EXCEPT !.ricochet = TRUE]
          /\ (id = "pierce" /\ stats.pierce) => stats' = stats
          /\ (id = "ricochet" /\ stats.ricochet) => stats' = stats]_vars
  /\ [](PerkStats(stats, "none") = stats)
  /\ [][\A j \in 1..Len(projectiles') :
          (projectiles'[j].id \notin Ids(projectiles) /\ stats.pierce)
            => projectiles'[j].piercesLeft = 1]_vars

\* pierce was chosen at the second prompt and a volley has left since
C26_Witness ==
  /\ nextMilestone = 30
  /\ ~perkOpen
  /\ stats = SecondPrompt.stats
  /\ \E j \in 1..Len(projectiles) :
       projectiles[j].createdAt > SecondPrompt.now /\ projectiles[j].piercesLeft = 1


(* The combat pass. *)

\* a vulnerable enemy of the snapshot that a projectile of the snapshot
\* overlaps and that does not touch the player
Hittable(k) ==
  /\ ~Invulnerable(enemies[k], now')
  /\ ~Touching(enemies[k])
  /\ FirstHit(enemies[k], projectiles) # 0

\* a vulnerable enemy before the k-th touches the player
ContactBefore(k) ==
  \E h \in 1..k - 1 : ~Invulnerable(enemies[h], now') /\ Touching(enemies[h])

Removed == Ids(enemies) \ Ids(enemies')

\* the lowest-index projectile overlapping the k-th enemy took the hit: if
\* it had a pierce charge it has one less, or is gone
HitTaken(k) ==
  LET over(i) == DistLess(projectiles[i].x - enemies[k].x,
                          projectiles[i].y - enemies[k].y,
                          projectiles[i].radius + enemies[k].radius)
      hit == projectiles[CHOOSE i \in 1..Len(projectiles) :
                           over(i) /\ \A j \in 1..i - 1 : ~over(j)]
  IN  hit.piercesLeft > 0 =>
        \/ hit.id \notin Ids(projectiles')
        \/ ById(projectiles', hit.id).piercesLeft < hit.piercesLeft

RECURSIVE SpeedAfter(_)
\* 1.3 * 1.1^n in tenths of a fixed-point unit, multiplied up step by step
SpeedAfter(n) == IF n = 0 THEN 325 ELSE TDiv(SpeedAfter(n - 1) * 11, 10)

\* C28: a tick opens the perk prompt if and only if the kill count after
\* its combat pass has reached nextMilestone and no prompt is open; that
\* tick sets running to false and multiplies the enemy speed by 1.1, no
\* other tick changes the enemy speed, and the enemy speed is always 1.3
\* times 1.1 to the number of prompts opened since the last reset.
C28_PromptIffMilestone ==
  /\ [][IsTick =>
          /\ PromptOpens <=> (kills' >= nextMilestone /\ ~perkOpen)
          /\ PromptOpens => /\ ~running'
                            /\ enemySpeed' = TDiv(enemySpeed * 11, 10)
          /\ ~PromptOpens => enemySpeed' = enemySpeed]_vars
  /\ [](enemySpeed = SpeedAfter((nextMilestone - 10) \div 10))


\* the first prompt was left open and the game started again with the
\* Start button; ten more kills later the next milestone is reached
BehindPrompt ==
  [Constructed EXCEPT
     !.running = TRUE,
     !.frames = [pending |-> 1, live |-> TRUE],
     !.kills = 20,
     !.obstacles = <<[x |-> 19772, y |-> 13123, width |-> 700, height |->
            1400]>>,
     !.player = [x |-> 16000, y |-> 9000, radius |-> 350, vx |-> 0, vy |->
            0, aimX |-> 1000, aimY |-> 0, lastFireTime |-> 39800],
     !.lastVolley = 39800,
     !.perkOpen = TRUE,
     !.perkChoices = <<"pierce", "arrow_count", "ricochet">>,
     !.nextMilestone = 20,
     !.lastEnemySpawn = 39300,
     !.enemySpeed = 357,
     !.now = 39800,
     !.loop = [perkOpen |-> TRUE, stats |-> [playerSpeed |-> 78,
            projectileSpeed |-> 150, arrowCount |-> 1, pierce |-> FALSE,
            ricochet |-> FALSE]],
     !.nextId = 61]

InitBehind == StateIs(BehindPrompt)
SpecBehind == InitBehind /\ [][Next]_vars


(* The volleys. *)

\* a projectile of the next state that is not one of this state
NewShot(j) == projectiles'[j].id \notin Ids(projectiles)

\* projectiles appear only in a frame in which the player is at rest and
\* 500 ms have passed since lastFireTime, stamped with the frame's time
ShotsOnlyWhenDue ==
  /\ \A j \in 1..Len(projectiles') :
       NewShot(j) => /\ IsTick
                     /\ player.vx = 0 /\ player.vy = 0
                     /\ now' - player.lastFireTime >= 500
                     /\ projectiles'[j].createdAt = now'
  /\ lastVolley' # lastVolley =>
       /\ IsTick
       /\ player.vx = 0 /\ player.vy = 0
       /\ now' - player.lastFireTime >= 500
       /\ lastVolley' = now'

\* C29 as stated: no projectile is created in a tick in which the player
\* moves or less than 500 ms have passed since lastFireTime, and any two
\* volleys are at least 500 ms apart.
C29_VolleysApart ==
  [][/\ ShotsOnlyWhenDue
     /\ (lastVolley' # lastVolley /\ lastVolley # 0)
          => lastVolley' - lastVolley >= 500]_vars

\* C29, amended: the same, the volleys of one run being at least 500 ms
\* apart (a reset sets lastFireTime to 0, so the first volley of the next
\* run can follow the last one of this run sooner), as are the createdAt
\* of any two projectiles in flight that differ.
C29_VolleysApartWithinRun ==
  /\ [][/\ ShotsOnlyWhenDue
        /\ (lastVolley' # lastVolley /\ lastVolley = player.lastFireTime)
             => lastVolley' - lastVolley >= 500]_vars
  /\ [](\A i, j \in 1..Len(projectiles) :
          \/ projectiles[i].createdAt = projectiles[j].createdAt
          \/ Abs(projectiles[i].createdAt - projectiles[j].createdAt) >= 500)

\* a volley has left exactly 500 ms after the one before it
C29_Witness ==
  /\ lastVolley = now
  /\ now > ShotDue.now
  /\ \E i, j \in 1..Len(projectiles) :
       /\ projectiles[j].createdAt = now
       /\ projectiles[i].createdAt = now - 500


(* The simulation while the run is stopped. *)

\* what a frame works on stays as it is
Frozen ==
  /\ player'.x = player.x /\ player'.y = player.y
  /\ player'.lastFireTime = player.lastFireTime
  /\ UNCHANGED <<enemies, projectiles, drops, obstacles, kills, slpCount,
                 lastEnemySpawn, now>>

\* C30: while running is false (the prompt is open, the user has paused,
\* or the game is over) no frame executes, although the last frame had
\* requested another one: player position, enemies, projectiles, drops,
\* obstacles, kills, currency and timers change by no step but a reset,
\* until running is true again.
C30_StoppedIsFrozen ==
  [][~running => /\ ~IsTick
                 /\ Frozen \/ ResetStep]_vars

\* the user has paused after the first frame, with an enemy in the arena
C30_Witness ==
  /\ ~running /\ ~gameOver /\ ~perkOpen
  /\ now = FirstFrame
  /\ Len(enemies) = 1


(* The animation frames of the loop effect. *)

\* C31: at most one animation-frame callback of the game loop is pending at
\* any time, and one is pending exactly while the game runs; a tick is the
\* run of that one callback, and the callback that follows it holds what
\* the tick committed.
C31_OneFramePending ==
  /\ [](frames.pending <= 1)
  /\ [](frames.pending = 1 <=> (running /\ ~gameOver))
  /\ [][IsTick => /\ frames.pending = 1
                  /\ loop' = [stats |-> stats', perkOpen |-> perkOpen']]_vars

\* a frame has run while a movement key is held: the next one waits
C31_Witness ==
  /\ frames.pending = 1
  /\ now > ShotDue.now
  /\ player.vx # 0


(* The kills of one projectile. *)

\* the index of the first projectile of the snapshot overlapping the k-th
\* enemy, 0 if none
LowestOver(k) ==
  LET over == {i \in 1..Len(projectiles) :
                 DistLess(projectiles[i].x - enemies[k].x,
                          projectiles[i].y - enemies[k].y,
                          projectiles[i].radius + enemies[k].radius)}
  IN  IF over = {} THEN 0 ELSE CHOOSE i \in over : \A j \in over : i <= j

\* the enemies the tick removes on a hit of the i-th projectile
KilledBy(i) ==
  {k \in 1..Len(enemies) : enemies[k].id \in Removed /\ LowestOver(k) = i}

\* C32: a projectile kills in a tick no more enemies than its pierce
\* charges plus one, also when it overlaps several enemies; a projectile
\* without the pierce perk kills at most one enemy.
C32_KillsPerProjectile ==
  [][IsTick => \A i \in 1..Len(projectiles) :
                 Cardinality(KilledBy(i)) <= projectiles[i].piercesLeft + 1]_vars


\* the i-th projectile of the snapshot overlaps a vulnerable enemy
OverlapsVulnerable(i) ==
  \E k \in 1..Len(enemies) :
    /\ ~Invulnerable(enemies[k], now')
    /\ DistLess(projectiles[i].x - enemies[k].x,
                projectiles[i].y - enemies[k].y,
                projectiles[i].radius + enemies[k].radius)

\* C33: a tick whose combat pass removes projectiles removes only
\* projectiles that hit: a projectile overlapping no vulnerable enemy is
\* still in the collection after the tick.
C33_OnlyHittersRemoved ==
  [][(IsTick /\ Combat(now').projectilesChanged) =>
       \A i \in 1..Len(projectiles) :
         ~OverlapsVulnerable(i) => projectiles[i].id \in Ids(projectiles')]_vars


(* Running and game over. *)

\* C34: running and gameOver are never both true.
C34_NotRunningWhenOver == [](~(running /\ gameOver))

\* the game has ended behind the open prompt
C34_Witness ==
  /\ gameOver /\ ~running /\ perkOpen
  /\ now > PromptIgnored.now


(* The keys that are down. *)

\* runs in which the keyboard is watched, from states with no key down
InitKeys ==
  \E s \in {Constructed, SecondPrompt} :
    StateIs([s EXCEPT !.held = [on |-> TRUE, keys |-> {}]])
SpecKeys == InitKeys /\ [][Next]_vars

\* C35: whenever no movement key is down the velocity of the player is
\* (0, 0), also when a key went up while the game was paused or the prompt
\* was open.
C35_NoKeyNoVelocity ==
  []((held.on /\ held.keys = {}) => (player.vx = 0 /\ player.vy = 0))


(* Enemies and obstacles. *)

\* nine kills; an enemy walks in from the lower left, where a milestone can
\* place an obstacle, and the tenth enemy is about to be hit
StandsThere ==
  [Constructed EXCEPT
     !.running = TRUE,
     !.kills = 9,
     !.enemies = <<[x |-> 10027, y |-> 15139, radius |-> 300, vx |-> 22, vy
            |-> -23, id |-> 28, spawnInvulUntil |-> 27600], [x |-> 16692, y
            |-> 9000, radius |-> 300, vx |-> -32, vy |-> 0, id |-> 30,
            spawnInvulUntil |-> 39800]>>,
     !.projectiles = <<[x |-> 16300, y |-> 9000, radius |-> 100, vx |->
            150, vy |-> 0, id |-> 31, createdAt |-> 39500, piercesLeft |->
            0, canRicochet |-> FALSE]>>,
     !.player = [x |-> 16000, y |-> 9000, radius |-> 350, vx |-> 0, vy |->
            0, aimX |-> 1000, aimY |-> 0, lastFireTime |-> 39500],
     !.lastEnemySpawn = 39500,
     !.now = 39800,
     !.lastVolley = 39500,
     !.frames = [pending |-> 1, live |-> TRUE],
     !.nextId = 32]

InitStand == StateIs(StandsThere)
SpecStand == InitStand /\ [][Next]_vars

\* C36: after every tick no enemy circle intersects an obstacle rectangle.
C36_EnemiesClearOfObstacles ==
  [][IsTick => \A j \in 1..Len(enemies') :
                 ~checkObstacleCollision(obstacles', enemies'[j].x,
                                         enemies'[j].y, enemies'[j].radius)]_vars


(* The state a reset leaves. *)

\* the run state of a fresh run
FreshRun ==
  /\ ~running /\ ~gameOver /\ kills = 0 /\ score = 0
  /\ player = [x |-> canvasWidth \div 2, y |-> canvasHeight \div 2,
               vx |-> 0, vy |-> 0, radius |-> Fx(14),
               aimX |-> 1000, aimY |-> 0, lastFireTime |-> 0]
  /\ enemies = <<>> /\ projectiles = <<>> /\ drops = <<>> /\ obstacles = <<>>
  /\ stats = [playerSpeed |-> 78, projectileSpeed |-> 150, arrowCount |-> 1,
              pierce |-> FALSE, ricochet |-> FALSE]
  /\ nextMilestone = 10 /\ ~perkOpen /\ enemySpeed = 325
  /\ lastEnemySpawn = 0

\* C37: resetGame leaves, whatever the state it is called in, the state of
\* a fresh run: not running, not over, kills 0, the player centred at rest
\* with lastFireTime 0, no enemies, projectiles, drops or obstacles, the
\* base stats, nextMilestone 10, the prompt closed, enemy speed 1.3 and
\* lastEnemySpawn 0; a reset of that state changes nothing.
C37_ResetIsFresh ==
  [][resetGame => /\ FreshRun'
                  /\ FreshRun => UNCHANGED vars]_vars

\* a run that had passed its first milestone has been reset
C37_Witness ==
  /\ FreshRun
  /\ perkChoices # <<>>
  /\ now > 0


(* -------------------------- SnakeGame: steps ------------------------- *)
gridSize == 20
\* the most moves of the snake a behaviour holds
MaxMoves == 5
\* the cells Math.random is taken to draw for the food
FoodDraws ==
  {[x |-> 15, y |-> 10]} \cup {[x |-> x, y |-> y] : x \in 10..12, y \in 9..10}
SnakeKeys == {"w", "a", "s", "d"}

SnakeCells(snake) == {snake[i] : i \in 1..Len(snake)}

SnakeOpposite(d) ==
  CASE d = "up" -> "down" [] d = "down" -> "up"
    [] d = "left" -> "right" [] d = "right" -> "left" [] OTHER -> "no"

\* the direction handleKeyDown leaves, called with the direction of the
\* last render
SnakeTurn(direction, key) ==
  IF key = "w" /\ direction # "down" THEN "up"
  ELSE IF key = "s" /\ direction # "up" THEN "down"
  ELSE IF key = "a" /\ direction # "right" THEN "left"
  ELSE IF key = "d" /\ direction # "left" THEN "right"
  ELSE direction

\* the cells placeFood can set, drawing again while the draw is a cell of
\* the snake its closure holds
placeFood(snake) == FoodDraws \ SnakeCells(snake)

\* the head one cell on
SnakeHead(head, direction) ==
  CASE direction = "up" -> [head EXCEPT !.y = @ - 1]
    [] direction = "down" -> [head EXCEPT !.y = @ + 1]
    [] direction = "left" -> [head EXCEPT !.x = @ - 1]
    [] direction = "right" -> [head EXCEPT !.x = @ + 1]

ArcheroKeeps ==
  UNCHANGED <<running, gameOver, score, kills, slpCount, obstacles, drops,
              enemies, projectiles, player, stats, perkOpen, perkChoices,
              nextMilestone, lastEnemySpawn, enemySpeed, mousePos, now,
              loop, keySpeed, picks, projected, lastVolley, frames, held,
              nextId>>

\* a key goes down; a new direction sets the move interval up again
SnakeHandleKeyDown(key) ==
  /\ snakeGame' =
       [snakeGame EXCEPT
          !.direction = SnakeTurn(snakeGame.direction, key),
          !.seen = IF SnakeTurn(snakeGame.direction, key) = snakeGame.direction
                   THEN @ ELSE snakeGame.snake]
  /\ ArcheroKeeps

\* the Start/Pause button, disabled when the game is over
SnakeToggleRunning ==
  /\ ~snakeGame.gameOver
  /\ snakeGame' = [snakeGame EXCEPT !.running = ~@, !.seen = snakeGame.snake]
  /\ ArcheroKeeps

\* the Reset button: placeFood reads the snake of the render of the click
SnakeResetGame ==
  /\ \E newFood \in placeFood(snakeGame.snake) :
       snakeGame' =
         [snakeGame EXCEPT
            !.running = FALSE, !.gameOver = FALSE, !.direction = "right",
            !.snake = SnakeStart, !.score = 0, !.food = newFood,
            !.seen = SnakeStart, !.applied = "none", !.before = "none"]
  /\ ArcheroKeeps

\* a tick of the move interval
SnakeGameLoop ==
  /\ snakeGame.running /\ ~snakeGame.gameOver
  /\ snakeGame.moves < MaxMoves
  /\ LET prevSnake == snakeGame.snake
         head == SnakeHead(prevSnake[1], snakeGame.direction)
         moved == [snakeGame EXCEPT !.before = snakeGame.applied,
                                    !.applied = snakeGame.direction,
                                    !.moves = @ + 1]
         newSnake == <<head>> \o prevSnake
     IN  IF \/ head.x < 0 \/ head.x >= gridSize
            \/ head.y < 0 \/ head.y >= gridSize
            \/ \E i \in 2..Len(prevSnake) : prevSnake[i] = head
         THEN snakeGame' = [moved EXCEPT !.gameOver = TRUE, !.running = FALSE,
                                         !.seen = prevSnake]
         ELSE IF head = snakeGame.food
         THEN \E newFood \in placeFood(snakeGame.seen) :
                snakeGame' = [moved EXCEPT !.snake = newSnake,
                                           !.score = @ + 1,
                                           !.food = newFood,
                                           !.seen = newSnake]
         ELSE snakeGame' =
                [moved EXCEPT !.snake = SubSeq(newSnake, 1, Len(prevSnake))]
  /\ ArcheroKeeps

InitSnake == StateIs(Constructed)

NextSnake ==
  \/ \E key \in SnakeKeys : SnakeHandleKeyDown(key)
  \/ SnakeToggleRunning
  \/ SnakeResetGame
  \/ SnakeGameLoop

SpecSnake == InitSnake /\ [][NextSnake]_vars

\* C38: the direction a move of the snake applies is never the opposite of
\* the direction the move before it applied, whatever keys were pressed
\* between the two moves.
C38_NeverReverses ==
  snakeGame.before = "none"
    \/ snakeGame.applied # SnakeOpposite(snakeGame.before)

\* C39: after every move and after every reset the food cell is not a cell
\* of the snake.
C39_FoodOffSnake ==
  snakeGame.food \notin SnakeCells(snakeGame.snake)

=============================================================================
